---- MODULE Spec2Model ----
(***************************************************************************)
(* A model of pyndoc's preprocessor (src/src/pyndoc/preprocess.py), of    *)
(* its execution server (src/src/pyndoc/server.py) and of the build that   *)
(* starts and stops the server (__main__.py, server_utils.py).             *)
(*                                                                         *)
(* A document is a sequence of one-character strings.  Positions are the   *)
(* 0-based indices of the Python code: At(s, k) is s[k], Slice(s, a, b) is *)
(* s[a:b].  Every Python function becomes an operator that returns a       *)
(* record: err = "none" and the value, or err = the kind of exception the  *)
(* function ends with ("parse" for throw_parsing_error, "index" for an     *)
(* IndexError, "key" for a KeyError, "indent" for deindent's exception,    *)
(* "type"/"attribute"/"value" for the TypeError, AttributeError and        *)
(* ValueError of the file readers, "recursion" for a RecursionError).      *)
(***************************************************************************)
EXTENDS Integers, Sequences, FiniteSets, TLC

VARIABLES
    contents,           \* preprocess: the document being scanned
    target_format,      \* preprocess: the target format ("" stands for None)
    i,                  \* preprocess: the scan cursor
    new_text,           \* preprocess: the output buffer
    check_chunks_idx,   \* preprocess: index of the first chunk size still tried
    pc,                 \* "loop", "done", "error"; "call", "returned" for a direct call
    result,             \* the returned text (after the newline collapse), or the error
    spans,              \* history: one record per iteration of the driver loop
    ret,                \* the value returned by a direct call of a function
    timeouts,           \* server main: the polling intervals left before the idle timeout
    listening,          \* server main: the threading.Event; set means "shut down"
    main_pc,            \* server main: the line the main thread stands at
    accept_result,      \* server main: how the latest accept call ended
    threads,            \* server: one record per client thread that was started
    namespace,          \* server: globals(), the namespace exec and eval run in
    build_pc,           \* build: the step the top-level process stands at
    metadata_file,      \* build: what .pyndoc.json holds
    server_proc,        \* build: how far the spawned server process has got
    port,               \* build: the port the top-level process obtained
    attempts,           \* build: the iterations of start_server's loop begun so far
    build_result,       \* build: how the top-level process ended
    sys_stdout,         \* capture: the stream sys.stdout is bound to
    workers,            \* capture: one record per thread inside capture_output
    console             \* capture: what was written to the original sys.stdout

docVars == <<contents, target_format, i, new_text, check_chunks_idx, pc, result, spans, ret>>

serverVars == <<timeouts, listening, main_pc, accept_result, threads, namespace>>

buildVars == <<build_pc, metadata_file, server_proc, port, attempts, build_result>>

captureVars == <<sys_stdout, workers, console>>

vars == <<contents, target_format, i, new_text, check_chunks_idx, pc, result, spans, ret,
          timeouts, listening, main_pc, accept_result, threads, namespace,
          build_pc, metadata_file, server_proc, port, attempts, build_result,
          sys_stdout, workers, console>>

\* no server is running
NoServer ==
    /\ timeouts = 0
    /\ listening = FALSE
    /\ main_pc = "none"
    /\ accept_result = "none"
    /\ threads = <<>>
    /\ namespace = <<>>

\* no build is running
NoBuild ==
    /\ build_pc = "none"
    /\ metadata_file = "absent"
    /\ server_proc = "none"
    /\ port = "None"
    /\ attempts = 0
    /\ build_result = "none"

\* no thread is inside capture_output
NoCapture ==
    /\ sys_stdout = "stdout"
    /\ workers = <<>>
    /\ console = <<>>

----------------------------------------------------------------------------
(* Strings *)

Chars(s) == [k \in 1..Len(s) |-> SubSeq(s, k, k)]

\* the backtick (a string literal cannot hold a lone backtick)
BT == SubSeq("`'", 1, 1)

Min(a, b) == IF a < b THEN a ELSE b
Max(a, b) == IF a > b THEN a ELSE b

At(s, k) == s[k + 1]

\* Python's s[a:b] for 0 <= a and 0 <= b
Slice(s, a, b) == SubSeq(s, a + 1, Min(b, Len(s)))

\* Python's s[a:]
SliceFrom(s, a) == SubSeq(s, a + 1, Len(s))

\* Python's s[:b], b possibly negative
SliceTo(s, b) == IF b >= 0 THEN Slice(s, 0, b) ELSE Slice(s, 0, Max(0, Len(s) + b))

\* Python's s[a:].startswith(p)
StartsWith(s, a, p) ==
    /\ a + Len(p) <= Len(s)
    /\ \A k \in 1..Len(p) : s[a + k] = p[k]

EndsWith(s, p) == Len(s) >= Len(p) /\ StartsWith(s, Len(s) - Len(p), p)

\* Python's `p in s`
Contains(s, p) == \E a \in 0..(Len(s) - Len(p)) : StartsWith(s, a, p)

RECURSIVE Concat(_)
Concat(ss) == IF ss = <<>> THEN <<>> ELSE Head(ss) \o Concat(Tail(ss))

\* Python's sep.join(ss)
RECURSIVE Join(_, _)
Join(ss, sep) ==
    IF ss = <<>> THEN <<>>
    ELSE IF Len(ss) = 1 THEN ss[1]
    ELSE ss[1] \o sep \o Join(Tail(ss), sep)

\* Python's s.split(c) for a one-character separator: a sequence of strings
RECURSIVE Split(_, _)
Split(s, c) ==
    IF \A k \in 1..Len(s) : s[k] # c THEN <<s>>
    ELSE LET p == CHOOSE k \in 1..Len(s) : s[k] = c /\ \A j \in 1..(k - 1) : s[j] # c
         IN  <<SubSeq(s, 1, p - 1)>> \o Split(SubSeq(s, p + 1, Len(s)), c)

\* Python's s.replace(old, new) for a one-character old
RECURSIVE ReplaceChar(_, _, _)
ReplaceChar(s, old, new) ==
    IF s = <<>> THEN <<>>
    ELSE (IF Head(s) = old THEN new ELSE <<Head(s)>>) \o ReplaceChar(Tail(s), old, new)

\* Python's s.replace(old, new) for a string old of one or more characters
RECURSIVE Replace(_, _, _)
Replace(s, old, new) ==
    IF Len(s) < Len(old) THEN s
    ELSE IF StartsWith(s, 0, old) THEN new \o Replace(SliceFrom(s, Len(old)), old, new)
    ELSE <<Head(s)>> \o Replace(Tail(s), old, new)

\* the least element of a set of numbers, or `default` when the set is empty
LeastOr(set, default) ==
    IF set = {} THEN default ELSE CHOOSE p \in set : \A q \in set : p <= q

\* the greatest element of a set of numbers, or `default` when the set is empty
GreatestOr(set, default) ==
    IF set = {} THEN default ELSE CHOOSE p \in set : \A q \in set : p >= q

\* the first position from k on whose character is in `set`, len(s) when there is none
NextOf(s, k, set) == LeastOr({p \in k..(Len(s) - 1) : At(s, p) \in set}, Len(s))

\* the end of the longest run of characters of `class` that starts at k
RunEnd(s, k, class) ==
    LeastOr({p \in k..(Len(s) - 1) : At(s, p) \notin class}, Max(k, Len(s)))

\* str.lstrip(chars), str.rstrip(chars), str.strip(chars)
LStripOf(s, chars) == SliceFrom(s, RunEnd(s, 0, chars))
RStripOf(s, chars) == SubSeq(s, 1, GreatestOr({k \in 1..Len(s) : s[k] \notin chars}, 0))

\* str.strip(), str.lstrip(), str.rstrip() strip these
Whitespace == {" ", "\t", "\n", "\r", "\f"}

LStrip(s) == LStripOf(s, Whitespace)
RStrip(s) == RStripOf(s, Whitespace)
Strip(s) == LStrip(RStrip(s))

\* str.strip("\n")
StripNewlines(s) == LStripOf(RStripOf(s, {"\n"}), {"\n"})

\* str.lower() on the letters the model uses
Lower(s) == [k \in 1..Len(s) |-> CASE s[k] = "L" -> "l" [] s[k] = "F" -> "f" [] OTHER -> s[k]]

\* the characters regex \w and \d match
Letters == {"a", "b", "c", "d", "f", "h", "i", "l", "m", "p", "r", "t", "x", "y", "n", "o", "s", "e", "g", "z"}
Digits == {"0", "1", "2", "3", "4", "5", "6", "7", "8", "9"}
WordChars == Letters \cup Digits \cup {"_", "F", "L", "E", "G", "X"}

\* string.count("\n", 0, index)
Count(s, c, a, b) == Cardinality({k \in (a + 1)..Min(b, Len(s)) : s[k] = c})

----------------------------------------------------------------------------
(* Results and exceptions *)

Ret(v) == [err |-> "none", val |-> v, pos |-> 0, msg |-> ""]
Ok(skip, text) == [err |-> "none", skip |-> skip, text |-> text, pos |-> 0, msg |-> ""]
Raise(kind, pos, msg) == [err |-> kind, val |-> 0, skip |-> 0, text |-> <<>>, pos |-> pos, msg |-> msg]

throw_parsing_error(cont, start, message) == Raise("parse", start, message)

IndexError == Raise("index", 0, "string index out of range")

----------------------------------------------------------------------------
(* deindent *)

Spaces(n) == [k \in 1..n |-> " "]

\* one line of deindent's loop: does it raise, and what does it append
LineRaises(line, indent) ==
    IF Len(line) < indent THEN Len(Strip(line)) # 0
    ELSE Slice(line, 0, indent) # Spaces(indent)

LineOut(line, indent) == IF Len(line) < indent THEN <<>> ELSE SliceFrom(line, indent)

\* the loop over the lines, indent being the indentation of the first line
DeindentLines(lines, indent) ==
    IF \E k \in 1..Len(lines) : LineRaises(lines[k], indent)
    THEN Raise("indent", 0, "Inconsistent indentation in code block")
    ELSE Ret(Join([k \in 1..Len(lines) |-> LineOut(lines[k], indent)], <<"\n">>))

\* indent = len(lines[0]) - len(lines[0].lstrip())
DeindentFrom(lines) == DeindentLines(lines, Len(lines[1]) - Len(LStrip(lines[1])))

deindent(code) == DeindentFrom(Split(ReplaceChar(code, "\t", Spaces(4)), "\n"))

----------------------------------------------------------------------------
(* read_code, read_math *)

\* the loop of an inline span: close on the next delimiter that no backslash precedes
RECURSIVE InlineLoop(_, _, _, _)
InlineLoop(cont, start, delimiter, k) ==
    IF k >= Len(cont) THEN Raise("eof", start, "")
    ELSE IF At(cont, k) = "\\" THEN InlineLoop(cont, start, delimiter, k + 2)
    ELSE IF At(cont, k) = delimiter THEN Ok(k - start + 1, Slice(cont, start, k + 1))
    ELSE InlineLoop(cont, start, delimiter, NextOf(cont, k + 1, {"\\", delimiter}))

\* the loop of a double-backtick span: cont[k + 1] is read without a bound check
RECURSIVE DoubleLoop(_, _, _, _)
DoubleLoop(cont, start, delimiter, k) ==
    IF k >= Len(cont) THEN Raise("eof", start, "")
    ELSE IF At(cont, k) = "\\" THEN DoubleLoop(cont, start, delimiter, k + 2)
    ELSE IF At(cont, k) = delimiter
         THEN IF k + 1 >= Len(cont) THEN IndexError
              ELSE IF At(cont, k + 1) = delimiter
                   THEN Ok(k - start + 2, Slice(cont, start, k + 2))
                   ELSE DoubleLoop(cont, start, delimiter, k + 1)
    ELSE DoubleLoop(cont, start, delimiter, NextOf(cont, k + 1, {"\\", delimiter}))

\* the return of a fenced block: the deindented block, or deindent's exception
FenceClose(skip, d) == IF d.err = "none" THEN Ok(skip, d.val) ELSE d

\* the loop of a fenced block: close on a delimiter whose two predecessors are delimiters
RECURSIVE FenceLoop(_, _, _, _)
FenceLoop(cont, start, delimiter, k) ==
    IF k >= Len(cont) THEN Raise("eof", start, "")
    ELSE IF At(cont, k) = "\\" THEN FenceLoop(cont, start, delimiter, k + 2)
    ELSE IF At(cont, k) = delimiter /\ At(cont, k - 1) = delimiter /\ At(cont, k - 2) = delimiter
         THEN FenceClose(k - start + 1, deindent(Slice(cont, start, k + 1)))
    ELSE FenceLoop(cont, start, delimiter, NextOf(cont, k + 1, {"\\", delimiter}))

\* a loop that ran off the end of the document becomes the parsing error of its reader
OrUnterminated(r, cont, start, message) ==
    IF r.err = "eof" THEN throw_parsing_error(cont, start, message) ELSE r

read_code(cont, start) ==
    LET delimiter == At(cont, start)
    IN  IF start >= Len(cont) - 1 THEN Ok(1, <<delimiter>>)
        ELSE IF delimiter = "~" /\ At(cont, start + 1) # "~" THEN Ok(1, <<delimiter>>)
        ELSE IF delimiter = BT /\ At(cont, start + 1) # BT
             THEN OrUnterminated(InlineLoop(cont, start, delimiter, start + 1),
                                 cont, start, "Unterminated inline code block")
        ELSE IF delimiter = BT /\ start + 2 >= Len(cont) THEN IndexError
        ELSE IF delimiter = BT /\ At(cont, start + 2) # BT
             THEN OrUnterminated(DoubleLoop(cont, start, delimiter, start + 2),
                                 cont, start, "Unterminated inline code block")
        ELSE OrUnterminated(FenceLoop(cont, start, delimiter, start + 3),
                            cont, start, "Unterminated code block")

\* the loop of a display-math block
RECURSIVE MathBlockLoop(_, _, _, _)
MathBlockLoop(cont, start, delimiter, k) ==
    IF k >= Len(cont) THEN Raise("eof", start, "")
    ELSE IF At(cont, k) = "\\" THEN MathBlockLoop(cont, start, delimiter, k + 2)
    ELSE IF At(cont, k) = delimiter /\ At(cont, k - 1) = delimiter
         THEN Ok(k - start + 1, Slice(cont, start, k + 1))
    ELSE MathBlockLoop(cont, start, delimiter, NextOf(cont, k + 1, {"\\", delimiter}))

read_math(cont, start) ==
    LET delimiter == At(cont, start)
    IN  IF start >= Len(cont) - 1 THEN Ok(1, <<delimiter>>)
        ELSE IF At(cont, start + 1) # "$"
             THEN OrUnterminated(InlineLoop(cont, start, delimiter, start + 1),
                                 cont, start, "Unterminated inline math block")
        ELSE OrUnterminated(MathBlockLoop(cont, start, delimiter, start + 2),
                            cont, start, "Unterminated math block")

----------------------------------------------------------------------------
(* find_string_end, find_matching_bracket *)

RECURSIVE StringLoop(_, _, _, _, _)
StringLoop(cont, start, delimiter, is_triple, k) ==
    IF k >= Len(cont) THEN throw_parsing_error(cont, start, "Unterminated string")
    ELSE IF At(cont, k) = "\\" THEN StringLoop(cont, start, delimiter, is_triple, k + 2)
    ELSE IF At(cont, k) = delimiter
         THEN IF ~is_triple THEN Ret(k)
              ELSE IF k + 1 >= Len(cont) THEN IndexError
              ELSE IF At(cont, k + 1) # delimiter
                   THEN StringLoop(cont, start, delimiter, is_triple, k + 1)
              ELSE IF k + 2 >= Len(cont) THEN IndexError
              ELSE IF At(cont, k + 2) = delimiter THEN Ret(k + 2)
              ELSE StringLoop(cont, start, delimiter, is_triple, k + 1)
    ELSE StringLoop(cont, start, delimiter, is_triple, NextOf(cont, k + 1, {"\\", delimiter}))

find_string_end(cont, start) ==
    IF start >= Len(cont) THEN IndexError
    ELSE LET delimiter == At(cont, start)
         IN  IF start + 1 >= Len(cont) THEN IndexError
             ELSE IF At(cont, start + 1) # delimiter
                  THEN StringLoop(cont, start, delimiter, FALSE, start + 1)
             ELSE IF start + 2 >= Len(cont) THEN IndexError
             ELSE StringLoop(cont, start, delimiter, At(cont, start + 2) = delimiter, start + 1)

bracket_map == [c \in {"(", "{", "[", "<"} |->
                   CASE c = "(" -> ")" [] c = "{" -> "}" [] c = "[" -> "]" [] c = "<" -> ">"]

RECURSIVE BracketLoop(_, _, _, _, _, _, _, _)

\* a string inside the brackets: resume after its end e
AfterString(cont, start, strict, is_double, opening, closing, count, e) ==
    IF e.err # "none" THEN e
    ELSE BracketLoop(cont, start, strict, is_double, opening, closing, count, e.val + 1)

BracketLoop(cont, start, strict, is_double, opening, closing, count, k) ==
    IF k >= Len(cont) THEN throw_parsing_error(cont, start, "Unterminated bracket")
    ELSE LET c == At(cont, k)
         IN  IF c = "\\"
             THEN BracketLoop(cont, start, strict, is_double, opening, closing, count, k + 2)
             ELSE IF ~strict /\ c \in {"'", "\""}
             THEN AfterString(cont, start, strict, is_double, opening, closing, count,
                              find_string_end(cont, k))
             ELSE IF c \in {opening, closing} /\ is_double /\ k + 1 >= Len(cont)
             THEN IndexError
             ELSE LET hit == IF is_double THEN At(cont, k + 1) = c ELSE TRUE
                      k2 == IF c \in {opening, closing} /\ is_double /\ hit THEN k + 1 ELSE k
                      count2 == IF c = opening /\ hit THEN count + 1
                                ELSE IF c = closing /\ hit THEN count - 1
                                ELSE count
                  IN  IF count2 = 0 THEN Ret(k2)
                      ELSE BracketLoop(cont, start, strict, is_double, opening, closing,
                                       count2,
                                       NextOf(cont, k2 + 1,
                                              {"\\", "'", "\"", opening, closing}))

\* find_matching_bracket without the depth counter: the first closing bracket
FirstClosingBracket(cont, start, strict, is_double) ==
    Ret(NextOf(cont, start + 1, {bracket_map[At(cont, start)]}))

find_matching_bracket(cont, start, strict, is_double) ==
    IF start >= Len(cont) THEN IndexError
    ELSE LET opening == At(cont, start)
         IN  IF opening \notin DOMAIN bracket_map THEN Raise("key", start, opening)
             ELSE IF is_double /\ start + 1 >= Len(cont) THEN IndexError
             ELSE IF is_double /\ At(cont, start + 1) # opening
                  THEN throw_parsing_error(cont, start, "Invalid double bracket")
             ELSE BracketLoop(cont, start, strict, is_double, opening, bracket_map[opening],
                              1, start + 1)

----------------------------------------------------------------------------
(* get_identifier, get_format_specifier *)

\* identifier_pattern: \w[\w\d\.]* followed by a character outside it or by the end
IdentifierTo(cont, start, e) ==
    [found |-> TRUE, skip |-> e - start, name |-> Slice(cont, start, e)]

get_identifier(cont, start) ==
    IF start < Len(cont) /\ At(cont, start) \in WordChars
    THEN IdentifierTo(cont, start, RunEnd(cont, start + 1, WordChars \cup {"."}))
    ELSE [found |-> FALSE, skip |-> 0, name |-> <<>>]

\* one optional one-character group of format_specifier_pattern
Opt(cont, k, class) == IF k < Len(cont) /\ At(cont, k) \in class THEN k + 1 ELSE k

\* the match with everything up to the type read: specifier = matched.group(0), and
\* the two false positives; p1 is after the fill, p2 after the align, p3 after the sign
FormatMatched(cont, start, p1, p2, p3, specifier) ==
    IF \/ RStrip(specifier) = <<":">>
       \/ /\ p1 > start + 1 /\ At(cont, start + 1) = " "
          /\ p3 > p2 /\ At(cont, p2) = " "
          /\ p2 = p1
    THEN [found |-> FALSE, skip |-> 0, specifier |-> <<>>]
    ELSE [found |-> TRUE, skip |-> Len(specifier), specifier |-> specifier]

\* (?P<precision>\.\d+)? (?P<type>[bcdeEfFgGnosxX\%])? from p8
FormatPrecision(cont, start, p1, p2, p3, p8) ==
    FormatMatched(cont, start, p1, p2, p3,
        Slice(cont, start,
              Opt(cont,
                  IF p8 + 1 < Len(cont) /\ At(cont, p8) = "." /\ At(cont, p8 + 1) \in Digits
                  THEN RunEnd(cont, p8 + 1, Digits) ELSE p8,
                  {"b", "c", "d", "e", "E", "f", "F", "g", "G", "n", "o", "s", "x", "X", "%"})))

\* (?P<coerce>z)? (?P<alternate>\#)? (?P<zero_pad>0)? (?P<width>\d+)? (?P<grouping>[\_\,])?
FormatSign(cont, start, p1, p2, p3) ==
    FormatPrecision(cont, start, p1, p2, p3,
        Opt(cont, RunEnd(cont, Opt(cont, Opt(cont, Opt(cont, p3, {"z"}), {"#"}), {"0"}), Digits),
            {"_", ","}))

\* (?P<sign>[+\-\ ])? from p2
FormatAlign(cont, start, p1, p2) ==
    FormatSign(cont, start, p1, p2, Opt(cont, p2, {"+", "-", " "}))

\* (?P<align>[><=^])? from p1
FormatFill(cont, start, p1) == FormatAlign(cont, start, p1, Opt(cont, p1, {">", "<", "=", "^"}))

\* every group is optional and greedy, and no later group needs a character an earlier
\* one took, except that the match of the whole pattern never fails after the ':'
get_format_specifier(cont, start) ==
    IF ~(start < Len(cont) /\ At(cont, start) = ":")
    THEN [found |-> FALSE, skip |-> 0, specifier |-> <<>>]
    ELSE FormatFill(cont, start,
                    IF start + 1 < Len(cont) /\ At(cont, start + 1) # "\n"
                    THEN start + 2 ELSE start + 1)

----------------------------------------------------------------------------
(* format_as_markdown, format_block_as_markdown *)

Fenced(classes, body) ==
    <<"\n", BT, BT, BT, "{">> \o classes \o <<"}", "\n">> \o body \o <<"\n", BT, BT, BT, "\n">>

Inline(classes, body) ==
    <<BT, BT, " ">> \o body \o <<" ", BT, BT, "{">> \o classes \o <<"}">>

\* format_as_markdown that wraps the macro in print(...) whether quiet or not
FormatAlwaysPrinting(macro, is_double, is_quiet, is_solo, is_inline, has_spec, specifier) ==
    Inline((IF is_double THEN Chars(".py-md") ELSE Chars(".py"))
           \o (IF is_quiet THEN Chars(" .quiet") ELSE <<>>),
           IF ~is_double THEN Chars("print(") \o macro \o Chars(")") ELSE macro)

\* format_as_markdown that writes the inline or block class before the quiet class
FormatPrefixClassFirst(macro, is_double, is_quiet, is_solo, is_inline, has_spec, specifier) ==
    Inline((IF is_double THEN Chars(".py-md") ELSE Chars(".py"))
           \o (CASE is_inline = "True" -> Chars(" .inline")
                 [] is_inline = "False" -> Chars(" .block")
                 [] OTHER -> <<>>)
           \o (IF is_quiet THEN Chars(" .quiet") ELSE <<>>),
           IF ~is_double /\ ~is_quiet THEN Chars("print(") \o macro \o Chars(")") ELSE macro)

\* is_inline is "None", "True" or "False"; has_spec tells whether specifier is not None
format_as_markdown(macro, is_double, is_quiet, is_solo, is_inline, has_spec, specifier) ==
    LET unwrapped == IF StartsWith(macro, 0, Chars("print(")) /\ EndsWith(macro, <<")">>)
                     THEN Slice(macro, 6, Len(macro) - 1) ELSE macro
        body == IF ~is_double /\ ~is_quiet
                THEN IF has_spec
                     THEN Chars("print('{") \o specifier \o Chars("}'.format(") \o unwrapped
                          \o Chars("))")
                     ELSE Chars("print(") \o unwrapped \o Chars(")")
                ELSE macro
        classes == (IF is_double THEN Chars(".py-md") ELSE Chars(".py"))
                   \o (IF is_quiet THEN Chars(" .quiet") ELSE <<>>)
                   \o (CASE is_inline = "True" -> Chars(" .inline")
                         [] is_inline = "False" -> Chars(" .block")
                         [] OTHER -> <<>>)
    IN  IF is_solo THEN Fenced(classes, body) ELSE Inline(classes, body)

format_block_as_markdown(block, is_quiet, is_solo) ==
    LET classes == Chars(".py") \o (IF is_quiet THEN Chars(" .quiet") ELSE <<>>)
    IN  IF is_solo THEN Fenced(classes, block) ELSE Inline(classes, block)

----------------------------------------------------------------------------
(* get_line_number, is_only_text_on_line *)

get_line_number(string, index) == Count(string, "\n", 0, index)

\* str.splitlines(): the line boundaries are \n, \r, \r\n and \f (of those the model
\* can write); a line break at the very end starts no further line
LineBreaks == {"\n", "\r", "\f"}

RECURSIVE splitlines(_)
splitlines(s) ==
    IF s = <<>> THEN <<>>
    ELSE IF \A k \in 1..Len(s) : s[k] \notin LineBreaks THEN <<s>>
    ELSE LET p == CHOOSE k \in 1..Len(s) :
                      s[k] \in LineBreaks /\ \A j \in 1..(k - 1) : s[j] \notin LineBreaks
             q == IF s[p] = "\r" /\ p < Len(s) /\ s[p + 1] = "\n" THEN p + 1 ELSE p
         IN  <<SubSeq(s, 1, p - 1)>> \o splitlines(SubSeq(s, q + 1, Len(s)))

\* before.strip() == "" and after.strip() == ""
OnlyTextBetween(start_text, end_text, start_in_line, end_in_line) ==
    Ret(/\ Strip(SliceTo(start_text, start_in_line)) = <<>>
        /\ Strip(IF end_in_line >= 0 THEN SliceFrom(end_text, end_in_line)
                 ELSE SliceFrom(end_text, Max(0, Len(end_text) + end_in_line))) = <<>>)

\* start_in_line and end_in_line, then lines[start_line] and lines[end_line]
OnlyTextIn(lines, start, end, start_line, end_line) ==
    IF start_line >= Len(lines) \/ end_line >= Len(lines) THEN IndexError
    ELSE OnlyTextBetween(lines[start_line + 1], lines[end_line + 1],
                         start - Len(Join(SubSeq(lines, 1, start_line), <<"\n">>)) - 1,
                         end - Len(Join(SubSeq(lines, 1, end_line), <<"\n">>)))

\* TRUE or FALSE in val, or the IndexError of lines[start_line], lines[end_line]
is_only_text_on_line(string, start, end) ==
    OnlyTextIn(splitlines(string), start, end,
               get_line_number(string, start), get_line_number(string, end))

----------------------------------------------------------------------------
(* The macro readers *)

\* the inline/block prefix of a macro
PrefixOf(cont, start) ==
    CASE At(cont, start) = "i" -> "True"
      [] At(cont, start) = "b" -> "False"
      [] OTHER -> "None"

\* the reader after get_format_specifier returned f at k
SpecifierFound(k, f) == [found |-> f.found, specifier |-> f.specifier, k |-> k + f.skip]

\* the trailing format specifier at k: where the reader stands after it
SpecifierAt(cont, k) ==
    IF k < Len(cont) /\ At(cont, k) = ":" THEN SpecifierFound(k, get_format_specifier(cont, k))
    ELSE [found |-> FALSE, specifier |-> <<>>, k |-> k]

\* the trailing ';' at k
QuietAt(cont, k) == k < Len(cont) /\ At(cont, k) = ";"

\* return i - start, format_as_markdown(...)
FinishEmit(start, k2, macro_string, is_double, is_quiet, is_inline, sp, solo) ==
    IF solo.err # "none" THEN solo
    ELSE Ok(k2 - start,
            format_as_markdown(macro_string, is_double, is_quiet, solo.val, is_inline,
                               sp.found, sp.specifier))

\* is_solo = is_only_text_on_line(contents, start, i - 1)
FinishQuiet(cont, start, k2, macro_string, is_double, is_quiet, is_inline, sp) ==
    FinishEmit(start, k2, macro_string, is_double, is_quiet, is_inline, sp,
               is_only_text_on_line(cont, start, k2 - 1))

\* the trailing ';' after the specifier sp
FinishSpecifier(cont, start, macro_string, is_double, is_inline, sp) ==
    FinishQuiet(cont, start, IF QuietAt(cont, sp.k) THEN sp.k + 1 ELSE sp.k,
                macro_string, is_double, QuietAt(cont, sp.k), is_inline, sp)

\* the tail shared by the identifier, expression and raw readers: specifier, ';',
\* is_only_text_on_line, format_as_markdown
FinishMacro(cont, start, k, macro_string, is_double, is_inline) ==
    FinishSpecifier(cont, start, macro_string, is_double, is_inline, SpecifierAt(cont, k))

\* one argument of a raw macro as written into the call
ArgString(arg, is_raw) ==
    IF is_raw
    THEN Chars("r\"\"\"") \o ReplaceChar(arg, "\"", <<"\\", "\"">>) \o Chars("\"\"\"")
    ELSE Chars("md.convert_from_string(r\"\"\"") \o ReplaceChar(arg, "\"", <<"\\", "\"">>)
         \o Chars("\"\"\", True, md.TARGET_FORMAT.name.lower())")

\* arg = contents[i + 1 : arg_end], and arg[1:-1] when the braces are doubled
ArgOf(cont, k, arg_end, is_raw) ==
    IF is_raw THEN Slice(cont, k + 2, arg_end - 1) ELSE Slice(cont, k + 1, arg_end)

RECURSIVE RawArgsLoop(_, _, _, _)

\* args.append((arg, is_raw)); i = arg_end + 1
RawArgAppend(cont, arg_strings, args, is_raw, arg_end, arg) ==
    RawArgsLoop(cont, arg_end + 1, Append(arg_strings, ArgString(arg, is_raw)),
                Append(args, [arg |-> arg, is_raw |-> is_raw]))

\* arg_end = find_matching_bracket(contents, i, strict = False, is_double = is_raw)
RawArgEnd(cont, k, arg_strings, args, is_raw, arg_end) ==
    IF arg_end.err # "none" THEN arg_end
    ELSE RawArgAppend(cont, arg_strings, args, is_raw, arg_end.val,
                      ArgOf(cont, k, arg_end.val, is_raw))

\* is_raw = contents[i + 1] == "{"
RawArg(cont, k, arg_strings, args, is_raw) ==
    RawArgEnd(cont, k, arg_strings, args, is_raw, find_matching_bracket(cont, k, FALSE, is_raw))

\* the loop over the brace arguments: err, the position after them, the argument strings
\* and (history) the arguments as read
RawArgsLoop(cont, k, arg_strings, args) ==
    IF ~(k < Len(cont) - 1 /\ At(cont, k) = "{")
    THEN [err |-> "none", k |-> k, arg_strings |-> arg_strings, args |-> args]
    ELSE RawArg(cont, k, arg_strings, args, At(cont, k + 1) = "{")

\* read_pyndoc_raw_macro after its loop returned a
RawCall(cont, start, macro_name, is_double, is_inline, a) ==
    IF a.err # "none" THEN a
    ELSE IF a.k > Len(cont)
    THEN throw_parsing_error(cont, start, "Unterminated raw macro")
    ELSE FinishMacro(cont, start, a.k,
                     macro_name \o <<"(">> \o Join(a.arg_strings, <<",", " ">>) \o <<")">>,
                     is_double, is_inline)

\* brace is the position of the opening brace; start is recomputed from the name
read_pyndoc_raw_macro(cont, brace, macro_name, is_double, is_inline) ==
    RawCall(cont,
            brace - (Len(macro_name) + (IF is_double THEN 2 ELSE 1)
                     + (IF is_inline # "None" THEN 1 ELSE 0)),
            macro_name, is_double, is_inline, RawArgsLoop(cont, brace, <<>>, <<>>))

RECURSIVE GroupsLoop(_, _, _)

\* a call group or an index group that ends at bracket_end
Group(cont, k, macro_string, bracket_end) ==
    IF bracket_end.err # "none" THEN bracket_end
    ELSE GroupsLoop(cont, bracket_end.val + 1,
                    macro_string \o Slice(cont, k, bracket_end.val + 1))

\* an attribute: the loop breaks when no identifier follows the dot
Field(cont, k, macro_string, field) ==
    IF field.found
    THEN GroupsLoop(cont, k + 1 + field.skip, macro_string \o <<".">> \o field.name)
    ELSE [err |-> "none", k |-> k, macro_string |-> macro_string]

\* the loop over call groups, index groups and attributes: err, position, macro string
GroupsLoop(cont, k, macro_string) ==
    IF ~(k < Len(cont) - 1 /\ At(cont, k) \in {"(", "[", "."})
    THEN [err |-> "none", k |-> k, macro_string |-> macro_string]
    ELSE IF At(cont, k) \in {"(", "["}
    THEN Group(cont, k, macro_string, find_matching_bracket(cont, k, FALSE, FALSE))
    ELSE Field(cont, k, macro_string, get_identifier(cont, k + 1))

\* TrimDot with the cursor stepped back by three
TrimDotBackThree(cont, start, stripped, k2, dot, is_double, is_inline) ==
    FinishMacro(cont, start, IF dot THEN k2 - 3 ELSE k2,
                IF dot THEN SliceTo(stripped, -1) ELSE stripped, is_double, is_inline)

\* if macro_string.endswith("."): macro_string = macro_string[:-1]; i -= 2
TrimDot(cont, start, stripped, k2, dot, is_double, is_inline) ==
    FinishMacro(cont, start, IF dot THEN k2 - 2 ELSE k2,
                IF dot THEN SliceTo(stripped, -1) ELSE stripped, is_double, is_inline)

\* stripped = macro_string.strip(); i -= len(macro_string) - len(stripped)
Stripped(cont, start, g, stripped, is_double, is_inline) ==
    TrimDot(cont, start, stripped, g.k - (Len(g.macro_string) - Len(stripped)),
            EndsWith(stripped, <<".">>), is_double, is_inline)

\* read_pyndoc_macro after the groups loop returned g
AfterGroups(cont, start, g, is_double, is_inline) ==
    IF g.err # "none" THEN g
    ELSE Stripped(cont, start, g, Strip(g.macro_string), is_double, is_inline)

\* return of the bare name once is_only_text_on_line returned solo
BareEmit(start, macro_name, k1, is_double, is_inline, solo) ==
    IF solo.err # "none" THEN solo
    ELSE Ok(k1 - start,
            format_as_markdown(macro_name, is_double, FALSE, solo.val, is_inline, FALSE, <<>>))

\* the macro is a bare name that ends the document
BareName(cont, start, macro_name, k1, is_double, is_inline) ==
    BareEmit(start, macro_name, k1, is_double, is_inline,
             is_only_text_on_line(cont, start, k1 - 1))

\* read_pyndoc_macro after the name: macro_name without its trailing dot, k1 after it
AfterName(cont, start, macro_name, k1, is_double, is_inline) ==
    IF k1 = Len(cont) THEN BareName(cont, start, macro_name, k1, is_double, is_inline)
    ELSE IF At(cont, k1) = "{"
    THEN read_pyndoc_raw_macro(cont, k1, macro_name, is_double, is_inline)
    ELSE AfterGroups(cont, start, GroupsLoop(cont, k1, macro_name), is_double, is_inline)

\* is_double and the position after the percent signs; pre is 1 after an i/b prefix
IsDouble(cont, start, pre) == At(cont, start + 1 + pre) = "%"
AfterPercent(cont, start, pre) == start + pre + (IF IsDouble(cont, start, pre) THEN 2 ELSE 1)
PrefixLen(cont, start) == IF PrefixOf(cont, start) # "None" THEN 1 ELSE 0

\* if macro_name.endswith("."): macro_name = macro_name[:-1]; i -= 1
MacroName(cont, start, is_inline, is_double, k0, id, dot) ==
    IF ~id.found THEN throw_parsing_error(cont, start, "Invalid macro name")
    ELSE AfterName(cont, start, IF dot THEN SliceTo(id.name, -1) ELSE id.name,
                   IF dot THEN k0 + id.skip - 1 ELSE k0 + id.skip, is_double, is_inline)

\* skip, macro_name = get_identifier(contents, i)
MacroIdentifier(cont, start, is_inline, is_double, k0, id) ==
    MacroName(cont, start, is_inline, is_double, k0, id, EndsWith(id.name, <<".">>))

\* is_double = contents[start + (2 if is_inline is not None else 1)] == "%"
MacroPrefix(cont, start, is_inline, pre) ==
    IF start + 1 + pre >= Len(cont) THEN IndexError
    ELSE MacroIdentifier(cont, start, is_inline, IsDouble(cont, start, pre),
                         AfterPercent(cont, start, pre),
                         get_identifier(cont, AfterPercent(cont, start, pre)))

read_pyndoc_macro(cont, start) ==
    MacroPrefix(cont, start, PrefixOf(cont, start), PrefixLen(cont, start))

\* macro_string = contents[i + 1 : bracket_end]; i = bracket_end + 1
ExpressionBody(cont, start, is_inline, is_double, k0, bracket_end) ==
    IF bracket_end.err # "none" THEN bracket_end
    ELSE FinishMacro(cont, start, bracket_end.val + 1,
                     Strip(Slice(cont, k0 + 1, bracket_end.val)), is_double, is_inline)

\* bracket_end = find_matching_bracket(contents, i)
ExpressionAt(cont, start, is_inline, is_double, k0) ==
    ExpressionBody(cont, start, is_inline, is_double, k0,
                   find_matching_bracket(cont, k0, FALSE, FALSE))

ExpressionPrefix(cont, start, is_inline, pre) ==
    IF start + 1 + pre >= Len(cont) THEN IndexError
    ELSE ExpressionAt(cont, start, is_inline, IsDouble(cont, start, pre),
                      AfterPercent(cont, start, pre))

read_pyndoc_expression(cont, start) ==
    ExpressionPrefix(cont, start, PrefixOf(cont, start), PrefixLen(cont, start))

\* return skip, format_block_as_markdown(block, is_quiet, is_solo)
BlockEmit(skip, is_quiet, block, solo) ==
    IF block.err # "none" THEN block
    ELSE IF solo.err # "none" THEN solo
    ELSE Ok(skip, format_block_as_markdown(block.val, is_quiet, solo.val))

\* block = deindent(contents[i + 1 : end].strip("\n")), then is_only_text_on_line
BlockQuiet(cont, start, end, is_quiet, skip) ==
    BlockEmit(skip, is_quiet, deindent(StripNewlines(Slice(cont, start + 2, end))),
              is_only_text_on_line(cont, start, start + skip - 1))

\* end = find_matching_bracket(contents, start + 1)
BlockMatched(cont, start, end) ==
    IF end.err # "none" THEN end
    ELSE BlockQuiet(cont, start, end.val, QuietAt(cont, end.val + 1),
                    end.val - start + 1 + (IF QuietAt(cont, end.val + 1) THEN 1 ELSE 0))

read_pyndoc_block(cont, start) ==
    BlockMatched(cont, start, find_matching_bracket(cont, start + 1, FALSE, FALSE))

----------------------------------------------------------------------------
(* The files the inclusion readers can open *)

\* target_format = None
NoneFormat == <<"None">>

\* the files of the working directory: every other relative path does not exist
FileSystem ==
    [name \in {Chars("f"), Chars("g"), Chars("c")} |->
        CASE name = Chars("f") -> Chars("%x")
          [] name = Chars("g") -> Chars("a\n\n\nb")
          [] name = Chars("c") -> Chars("%%%md{c}")]

\* Path(filename): an existing file, a directory ("" is the working directory), a
\* relative path that does not exist, or an absolute path that does not exist
PathKind(filename) ==
    IF filename \in DOMAIN FileSystem THEN "file"
    ELSE IF filename = <<>> \/ filename = <<".">> THEN "directory"
    ELSE IF Head(filename) = "/" THEN "absent-absolute"
    ELSE "absent"

RECURSIVE preprocess_text(_, _, _)

\* the path of %%%py{...} and %%%md{...}: strip, then substitute {format}
FileName(cont, open, end, target) ==
    Replace(Strip(Slice(cont, open + 1, end)), Chars("{format}"), target)

\* is_solo is computed and not used: the replacement is always an inline span
FileEmit(cont, start, end, skip, is_quiet, target, solo) ==
    IF solo.err # "none" THEN solo
    ELSE Ok(IF is_quiet THEN skip + 1 ELSE skip,
            Inline(Chars(".py-file") \o (IF is_quiet THEN Chars(" .quiet") ELSE <<>>),
                   FileName(cont, start + 5, end, target)))

\* filename.replace("{format}", None) is a TypeError
FileMatched(cont, start, target, end) ==
    IF end.err # "none" THEN end
    ELSE IF target = NoneFormat
    THEN Raise("type", start, "replace() argument 2 must be str")
    ELSE FileEmit(cont, start, end.val, end.val - start + 1, QuietAt(cont, end.val + 1), target,
                  is_only_text_on_line(cont, start, end.val))

read_pyndoc_file(cont, start, target) ==
    FileMatched(cont, start, target, find_matching_bracket(cont, start + 5, FALSE, FALSE))

\* return skip, file_contents
Included(skip, sub) == IF sub.err # "none" THEN sub ELSE Ok(skip, sub.text)

\* open the file, read it and preprocess it: the replacement of an inclusion
Include(skip, path, target, depth) ==
    Included(skip, preprocess_text(FileSystem[path], target, depth + 1))

\* file_path.exists(), file_path.is_absolute(), file_path.open("r")
MdOpen(cont, start, skip, filename, kind, target, depth) ==
    CASE kind = "file" -> Include(skip, filename, target, depth)
      [] kind = "absent" -> throw_parsing_error(cont, start, "File does not exist")
      [] OTHER -> Raise("oserror", start, "open")

MdNamed(cont, start, skip, filename, target, depth) ==
    MdOpen(cont, start, skip, filename, PathKind(filename), target, depth)

MdMatched(cont, start, target, depth, end) ==
    IF end.err # "none" THEN end
    ELSE IF target = NoneFormat
    THEN Raise("type", start, "replace() argument 2 must be str")
    ELSE MdNamed(cont, start, end.val - start + 1, FileName(cont, start + 5, end.val, target),
                 target, depth)

read_pyndoc_md_file(cont, start, target, depth) ==
    MdMatched(cont, start, target, depth, find_matching_bracket(cont, start + 5, FALSE, FALSE))

\* option.strip() for option in text.split(";") if len(option.strip()) > 0
StrippedPieces(pieces) ==
    SelectSeq([k \in 1..Len(pieces) |-> Strip(pieces[k])], LAMBDA o : Len(o) > 0)

SplitEach(kept) == [k \in 1..Len(kept) |-> Split(kept[k], ":")]

\* the clauses of %%%mdifformat{...}: the non-blank pieces between ';', each split at ':'
Clauses(text) == SplitEach(StrippedPieces(Split(text, ";")))

LowerEach(fmts) == {Lower(Strip(fmts[k])) : k \in 1..Len(fmts)}

\* the formats of one clause, stripped and lowered
ClauseFormats(clause) == LowerEach(Split(clause[1], ","))

Least(matching) ==
    IF matching = {} THEN 0 ELSE CHOOSE k \in matching : \A j \in matching : k <= j

\* FirstMatch that takes the last clause naming the target format
LastMatch(options, target) ==
    GreatestOr({k \in 1..Len(options) : Lower(target) \in ClauseFormats(options[k])}, 0)

\* the first clause that names the target format, 0 when none does
FirstMatch(options, target) ==
    Least({k \in 1..Len(options) : Lower(target) \in ClauseFormats(options[k])})

\* file_path.exists(), file_path.open("r")
ConditionalOpen(cont, start, skip, path, kind, target, depth) ==
    CASE kind = "file" -> Include(skip, path, target, depth)
      [] kind = "directory" -> Raise("oserror", start, "open")
      [] OTHER -> throw_parsing_error(cont, start, "File does not exist")

ConditionalPath(cont, start, skip, path, target, depth) ==
    ConditionalOpen(cont, start, skip, path, PathKind(path), target, depth)

\* for fmts, path in options: if target_format.lower() in fmts
ConditionalChosen(cont, start, skip, options, first, target, depth) ==
    IF first = 0 THEN Ok(skip, <<>>)
    ELSE ConditionalPath(cont, start, skip, Strip(options[first][2]), target, depth)

\* the unpacking of the clauses, then target_format.lower()
ConditionalParsed(cont, start, skip, options, target, depth) ==
    IF \E k \in 1..Len(options) : Len(options[k]) # 2
    THEN Raise("value", start, "too many or not enough values to unpack")
    ELSE IF options # <<>> /\ target = NoneFormat
    THEN Raise("attribute", start, "NoneType has no attribute lower")
    ELSE ConditionalChosen(cont, start, skip, options,
                           FirstMatch(options, target), target, depth)

ConditionalMatched(cont, start, target, depth, end) ==
    IF end.err # "none" THEN end
    ELSE ConditionalParsed(cont, start, end.val - start + 1,
                           Clauses(Slice(cont, start + 14, end.val)), target, depth)

read_pyndoc_conditional_md_file(cont, start, target, depth) ==
    ConditionalMatched(cont, start, target, depth,
                       find_matching_bracket(cont, start + 13, FALSE, FALSE))

----------------------------------------------------------------------------
(* preprocess: one iteration of the driver loop *)

CHUNK_SIZES == <<10000, 5000, 2000, 1000, 500, 250, 100>>

Triggers == <<Chars("%"), Chars("<!--"), Chars("\""), Chars("'"), Chars("\\"), Chars("$")>>

contains_any(string, tests) == \E t \in 1..Len(tests) : Contains(string, tests[t])

\* the for loop over CHUNK_SIZES[check_chunks_idx:], standing at the n-th chunk size:
\* the chunk to copy in bulk, if any, and check_chunks_idx after the loop
RECURSIVE FastScan(_, _, _, _)
FastScan(cont, k, n, idx) ==
    IF n > Len(CHUNK_SIZES) THEN [hit |-> FALSE, size |-> 0, idx |-> idx]
    ELSE IF k + CHUNK_SIZES[n] < Len(cont)
         THEN IF ~contains_any(Slice(cont, k, k + CHUNK_SIZES[n]), Triggers)
              THEN [hit |-> TRUE, size |-> CHUNK_SIZES[n], idx |-> idx]
              ELSE FastScan(cont, k, n + 1, idx)
         ELSE FastScan(cont, k, n + 1, idx + 1)

FastPathAt(cont, k, idx) == FastScan(cont, k, idx + 1, idx)

\* re.match(r"[ib]?\%{1,2}" + next, contents[i:]) with next a character class
MacroStart(cont, k, class) ==
    LET p == IF At(cont, k) \in {"i", "b"} THEN k + 1 ELSE k
    IN  /\ p + 1 < Len(cont)
        /\ At(cont, p) = "%"
        /\ \/ At(cont, p + 1) \in class
           \/ p + 2 < Len(cont) /\ At(cont, p + 1) = "%" /\ At(cont, p + 2) \in class

\* the branch of the if chain taken at k when no chunk was copied
Branch(cont, k) ==
    CASE StartsWith(cont, k, Chars("<!--")) -> "comment"
      [] OTHER ->
    CASE At(cont, k) = "\\" -> "escape"
      [] At(cont, k) = BT -> "code"
      [] At(cont, k) = "$" -> "math"
      [] OTHER ->
    CASE MacroStart(cont, k, WordChars) -> "macro"
      [] OTHER ->
    CASE MacroStart(cont, k, {"("}) -> "expression"
      [] OTHER ->
    CASE StartsWith(cont, k, Chars("%{")) -> "block"
      [] OTHER ->
    CASE StartsWith(cont, k, Chars("%%%py{")) -> "file"
      [] OTHER ->
    CASE StartsWith(cont, k, Chars("%%%mdifformat")) -> "conditional"
      [] OTHER ->
    CASE StartsWith(cont, k, Chars("%%%md")) -> "md"
      [] OTHER -> "char"

\* what the loop does at k: the fast path, or the branch
OpAt(cont, k, idx) == IF FastPathAt(cont, k, idx).hit THEN "fast" ELSE Branch(cont, k)

\* the end of the HTML comment that starts at k: 3 past the first "-->", or past the end
CommentEnd(cont, k) ==
    LeastOr({p \in k..(Len(cont) - 1) : StartsWith(cont, p, Chars("-->"))}, Len(cont)) + 3

SkipComment(cont, k) == Ok(CommentEnd(cont, k) - k, <<>>)

\* EscapeAt that copies the backslash alone
EscapeBackslashOnly(cont, k) == Ok(1, <<At(cont, k)>>)

EscapeAt(cont, k) ==
    IF k + 1 < Len(cont) THEN Ok(2, <<At(cont, k), At(cont, k + 1)>>) ELSE Ok(1, <<At(cont, k)>>)

CopyChar(cont, k) == Ok(1, <<At(cont, k)>>)

\* CopyChunk without the last character of the chunk
CopyChunkShort(cont, k, size) == Ok(size, Slice(cont, k, k + size - 1))

\* new_text.write(contents[i : i + chunk_size]); i += chunk_size
CopyChunk(cont, k, size) == Ok(size, Slice(cont, k, k + size))

BulkCopy(cont, k, idx) == CopyChunk(cont, k, FastPathAt(cont, k, idx).size)

\* the (consumed length, replacement) of the iteration at k, or its exception
Dispatch(op, cont, k, idx, target, depth) ==
    CASE op = "fast" -> BulkCopy(cont, k, idx)
      [] op = "comment" -> SkipComment(cont, k)
      [] op = "escape" -> EscapeAt(cont, k)
      [] op = "code" -> read_code(cont, k)
      [] op = "math" -> read_math(cont, k)
      [] op = "macro" -> read_pyndoc_macro(cont, k)
      [] op = "expression" -> read_pyndoc_expression(cont, k)
      [] op = "block" -> read_pyndoc_block(cont, k)
      [] op = "file" -> read_pyndoc_file(cont, k, target)
      [] op = "conditional" -> read_pyndoc_conditional_md_file(cont, k, target, depth)
      [] op = "md" -> read_pyndoc_md_file(cont, k, target, depth)
      [] OTHER -> CopyChar(cont, k)

\* re.sub(r"\n\n+", "\n\n", text)
\* every newline that follows two newlines is dropped
Numbered(text) == [k \in 1..Len(text) |-> <<k, text[k]>>]

Unnumbered(pairs) == [k \in 1..Len(pairs) |-> pairs[k][2]]

CollapseNewlines(text) ==
    Unnumbered(SelectSeq(Numbered(text),
                         LAMBDA e : ~(e[1] > 2 /\ text[e[1]] = "\n" /\ text[e[1] - 1] = "\n"
                                      /\ text[e[1] - 2] = "\n")))

Returned(text) == [err |-> "none", text |-> CollapseNewlines(text), pos |-> 0, msg |-> ""]
Failed(r) == [err |-> r.err, text |-> <<>>, pos |-> r.pos, msg |-> r.msg]

\* the depth of nested inclusions at which Python's recursion limit is reached
MaxDepth == 2

\* the whole loop from cursor k, as the inclusion readers run it on an included file
RECURSIVE PreprocessLoop(_, _, _, _, _, _)

\* one iteration whose reader returned or raised r
LoopStep(cont, target, depth, k, idx, out, r) ==
    IF r.err # "none" THEN Failed(r)
    ELSE PreprocessLoop(cont, target, depth, k + r.skip, FastPathAt(cont, k, idx).idx,
                        out \o r.text)

PreprocessLoop(cont, target, depth, k, idx, out) ==
    IF k >= Len(cont) THEN Returned(out)
    ELSE LoopStep(cont, target, depth, k, idx, out,
                  Dispatch(OpAt(cont, k, idx), cont, k, idx, target, depth))

preprocess_text(cont, target, depth) ==
    IF depth > MaxDepth THEN [err |-> "recursion", text |-> <<>>, pos |-> 0, msg |-> ""]
    ELSE PreprocessLoop(cont, target, depth, 0, 0, <<>>)

----------------------------------------------------------------------------
(* preprocess with the chunked fast path disabled: every iteration takes the if chain *)

\* the first position from k on where the if chain does more than copy the character
PlainEnd(cont, k) ==
    LeastOr({p \in k..(Len(cont) - 1) : Branch(cont, p) # "char"}, Len(cont))

RECURSIVE CharLoop(_, _, _, _)

CharStep(cont, target, k, out, r) ==
    IF r.err # "none" THEN Failed(r) ELSE CharLoop(cont, target, k + r.skip, out \o r.text)

\* the iterations that copy one character each are taken together, up to PlainEnd
CharLoop(cont, target, k, out) ==
    IF k >= Len(cont) THEN Returned(out)
    ELSE IF Branch(cont, k) = "char"
    THEN CharLoop(cont, target, PlainEnd(cont, k), out \o Slice(cont, k, PlainEnd(cont, k)))
    ELSE CharStep(cont, target, k, out, Dispatch(Branch(cont, k), cont, k, 0, target, 0))

CharByChar(cont, target) == CharLoop(cont, target, 0, <<>>)

----------------------------------------------------------------------------
(* preprocess as a state machine: one action per branch of the driver loop *)

\* all strings over `alphabet` of length at most n
Strings(alphabet, n) == UNION {[1..m -> alphabet] : m \in 0..n}

\* the state at the entry of preprocess(doc, target)
Start(doc, target) ==
    /\ contents = doc
    /\ target_format = target
    /\ i = 0
    /\ new_text = <<>>
    /\ check_chunks_idx = 0
    /\ pc = "loop"
    /\ result = [err |-> "none", text |-> <<>>, pos |-> 0, msg |-> ""]
    /\ spans = <<>>
    /\ ret = Ret(0)

\* the iteration at the cursor takes branch `op` and its reader returns or raises r
Iteration(op, r) ==
    /\ pc = "loop"
    /\ i < Len(contents)
    /\ OpAt(contents, i, check_chunks_idx) = op
    /\ check_chunks_idx' = FastPathAt(contents, i, check_chunks_idx).idx
    /\ IF r.err = "none"
       THEN /\ new_text' = new_text \o r.text
            /\ i' = i + r.skip
            /\ spans' = Append(spans, [op |-> op, at |-> i, skip |-> r.skip, text |-> r.text])
            /\ UNCHANGED <<pc, result>>
       ELSE /\ pc' = "error"
            /\ result' = Failed(r)
            /\ UNCHANGED <<new_text, i, spans>>
    /\ UNCHANGED <<contents, target_format, ret>>
    /\ UNCHANGED <<serverVars, buildVars, captureVars>>

FastPath == Iteration("fast", BulkCopy(contents, i, check_chunks_idx))

Comment == Iteration("comment", SkipComment(contents, i))

Escape == Iteration("escape", EscapeAt(contents, i))

Code == Iteration("code", read_code(contents, i))

Math == Iteration("math", read_math(contents, i))

Macro == Iteration("macro", read_pyndoc_macro(contents, i))

Expression == Iteration("expression", read_pyndoc_expression(contents, i))

Block == Iteration("block", read_pyndoc_block(contents, i))

PyFile == Iteration("file", read_pyndoc_file(contents, i, target_format))

ConditionalMdFile ==
    Iteration("conditional", read_pyndoc_conditional_md_file(contents, i, target_format, 0))

MdFile == Iteration("md", read_pyndoc_md_file(contents, i, target_format, 0))

Char == Iteration("char", CopyChar(contents, i))

\* the loop ends: collapse the newlines and return
Finish ==
    /\ pc = "loop"
    /\ i >= Len(contents)
    /\ pc' = "done"
    /\ result' = Returned(new_text)
    /\ UNCHANGED <<contents, target_format, i, new_text, check_chunks_idx, spans, ret>>
    /\ UNCHANGED <<serverVars, buildVars, captureVars>>

Next ==
    \/ FastPath
    \/ Comment
    \/ Escape
    \/ Code
    \/ Math
    \/ Macro
    \/ Expression
    \/ Block
    \/ PyFile
    \/ ConditionalMdFile
    \/ MdFile
    \/ Char
    \/ Finish

----------------------------------------------------------------------------
(* The documents preprocess is run on *)

Fill(n) == [k \in 1..n |-> "a"]

\* documents that take every branch of the loop
BranchDocs ==
    { Fill(101) \o Chars("%x"),
      Chars("<!--a-->b"),
      Chars("\\%x"),
      <<BT, "a", BT>>,
      Chars("$a$"),
      Chars("%(a)"),
      Chars("%{a}"),
      Chars("%%%py{f}"),
      Chars("%%%md{f}"),
      Chars("%%%md{g}"),
      Chars("%%%md{c}"),
      Chars("%%%md{n}"),
      Chars("%%%mdifformat{l:f}"),
      Chars("%%%mdifformat{m:f;L,x: g}"),
      Chars("%%%mdifformat{m:f}") }

\* the target formats: "l", or None
Targets == {Chars("l"), NoneFormat}

\* every document over ScanAlphabet of at most MaxLen characters
MaxLen == 4

ScanAlphabet == {"%", "x", "(", ")", "\\", BT, "$", "\n"}

ScanDocs == Strings(ScanAlphabet, MaxLen)

\* macros in context: lead, sigil, body, format specifier, ';', trail
MacroLead == {<<>>, Chars("\n"), Chars("a ")}
MacroSigil == {Chars("%"), Chars("%%"), Chars("i%"), Chars("b%%")}
MacroBody ==
    { Chars("x"), Chars("f(x)"), Chars("(a)"), Chars("{a}"), Chars("f{a}"), Chars("f{{a}}"),
      Chars("x.."), Chars("f(x).a."), <<"(", "a", BT, BT, "b", ")">>,
      Chars("x."), Chars("x.a.") }
MacroSpecifier == {<<>>, Chars(":2"), Chars(":"), Chars(":;"), Chars(":.2f")}
MacroQuiet == {<<>>, Chars(";")}
MacroTrail == {<<>>, Chars("\n"), Chars(" b"), Chars(" \nb")}

MacroDocs ==
    { lead \o sigil \o body \o specifier \o quiet \o trail :
        lead \in MacroLead, sigil \in MacroSigil, body \in MacroBody,
        specifier \in MacroSpecifier, quiet \in MacroQuiet, trail \in MacroTrail }

\* a raw macro with one doubled-brace argument of at most MaxArg characters
MaxArg == 4

RawArgAlphabet == {"a", "{", "}"}

RawDoc(body) == Chars("%f{{") \o body \o Chars("}}")

RawDocs == {RawDoc(body) : body \in Strings(RawArgAlphabet, MaxArg)}

\* documents around the smallest chunk size: a run of plain text of the chunk size give
\* or take PadSlack, between a head and a tail
PadSlack == 2

MinChunk == CHUNK_SIZES[Len(CHUNK_SIZES)]

PadHead == {<<>>, <<BT>>, Chars("<"), Chars("i")}

PadTail ==
    { <<>>, Chars("%x"), <<BT, "%", "x", BT>>, <<BT>>, Chars("!--a-->b"), Chars("<!--a-->b"),
      Chars("i%x"), Chars("\\%x"), Chars("\n\n\n") }

PaddedDocs ==
    { head \o Fill(n) \o tail :
        head \in PadHead, n \in (MinChunk - PadSlack)..(MinChunk + PadSlack), tail \in PadTail }

\* macros that span two lines, with and without text around them
MultiLineLead == {<<>>, Chars("a"), Chars(" a"), Chars("\n"), Chars("\na")}
MultiLineBody == {Chars("%(x\n)"), Chars("%{x\n}"), Chars("%f(\n)"), Chars("%f{{\n}}")}
MultiLineTrail == {<<>>, Chars("b"), Chars(";")}

MultiLineDocs ==
    { lead \o body \o trail :
        lead \in MultiLineLead, body \in MultiLineBody, trail \in MultiLineTrail }

\* %%%mdifformat constructs of two clauses: each clause with the formats it names
\* (lowered) and its path; n is the path of no file, and the blank clause names nothing
ConditionalClauses ==
    { [text |-> Chars("l:f"), fmts |-> {Chars("l")}, path |-> Chars("f")],
      [text |-> Chars("L : g"), fmts |-> {Chars("l")}, path |-> Chars("g")],
      [text |-> Chars("m:f"), fmts |-> {Chars("m")}, path |-> Chars("f")],
      [text |-> Chars("m, L: g"), fmts |-> {Chars("m"), Chars("l")}, path |-> Chars("g")],
      [text |-> Chars("l:n"), fmts |-> {Chars("l")}, path |-> Chars("n")],
      [text |-> Chars("x:n"), fmts |-> {Chars("x")}, path |-> Chars("n")],
      [text |-> Chars(" "), fmts |-> {}, path |-> Chars("n")] }

ConditionalSeparators == {Chars(";"), Chars(";\n ")}

ConditionalDoc(first, sep, second) ==
    Chars("%%%mdifformat{") \o first.text \o sep \o second.text \o Chars("}")

ConditionalDocs ==
    { ConditionalDoc(first, sep, second) :
        first \in ConditionalClauses, sep \in ConditionalSeparators,
        second \in ConditionalClauses }

\* the target formats of the conditional inclusions: d is named by no clause
ConditionalTargets == {Chars("l"), Chars("L"), Chars("m"), Chars("x"), Chars("d")}

\* a quiet identifier macro inside a sentence
ExampleDocs == {Chars("Value: %x;")}

\* fenced blocks of two content lines, indented with spaces and tabs
FenceMarks == {<<BT, BT, BT>>, Chars("~~~")}
FirstLines == {Chars("a"), Chars("  a"), Chars("\ta")}
LaterLines ==
    {<<>>, Chars("b"), Chars(" b"), Chars("  b"), Chars("   b"), Chars("\tb"), Chars("  %x")}

FencedDoc(mark, first, later) ==
    mark \o <<"\n">> \o first \o <<"\n">> \o later \o <<"\n">> \o mark

FencedDocs ==
    { FencedDoc(mark, first, later) :
        mark \in FenceMarks, first \in FirstLines, later \in LaterLines }

\* blocks opened and closed by runs of 3 to MaxRun backticks
MaxRun == 5

Run(n) == [k \in 1..n |-> BT]

RunDocs ==
    { Run(n) \o body \o Run(m) \o tail :
        n \in 3..MaxRun, m \in 3..MaxRun, body \in {Chars("a"), Chars("\na\n")},
        tail \in {<<>>, Chars("b")} }

\* spans whose content holds an escaped closing delimiter, alone or after a delimiter
Delimiters == {<<BT>>, <<BT, BT>>, <<BT, BT, BT>>, Chars("$"), Chars("$$")}

EscapedDoc(open, before, tail) ==
    open \o Chars("a") \o before \o <<"\\">> \o open \o Chars("b") \o open \o tail

EscapedDocs ==
    { EscapedDoc(open, before, tail) :
        open \in Delimiters, before \in {<<>>, Chars(" ")}, tail \in {<<>>, Chars("c")} }
    \cup { EscapedDoc(open, <<open[1]>>, tail) :
             open \in {d \in Delimiters : Len(d) > 1}, tail \in {<<>>, Chars("c")} }

\* a macro directly after a word that ends in i or b, and after a lone i or b
WordDocs ==
    { Chars("hi%x"), Chars("ab%x"), Chars("hi%%x"), Chars("i%x"), Chars("a i%x"),
      Chars("a b%x"), Chars("hi%(x)"), Chars("h%x") }

Init ==
    /\ NoServer /\ NoBuild /\ NoCapture
    /\ \/ \E doc \in ScanDocs \cup MacroDocs \cup RawDocs \cup PaddedDocs \cup MultiLineDocs
                        \cup ExampleDocs \cup FencedDocs \cup RunDocs \cup EscapedDocs
                        \cup WordDocs :
              Start(doc, Chars("l"))
       \/ \E doc \in BranchDocs, target \in Targets : Start(doc, target)
       \/ \E doc \in ConditionalDocs, target \in ConditionalTargets : Start(doc, target)

Spec == Init /\ [][Next]_vars

----------------------------------------------------------------------------
(* Properties of the driver loop *)

Range(f) == {f[k] : k \in DOMAIN f}

Ended == pc \in {"done", "error"}

\* the document holds none of %, <!--, a quote, a backslash, $
NoTrigger(doc) == ~contains_any(doc, Triggers)

\* C1: for every document, preprocess with the chunked fast path ends with the same
\* output, or the same error, as the driver that takes the if chain at every character.
C1_FastPathEquivalent == Ended => result = CharByChar(contents, target_format)

\* C2: every iteration of the driver loop that returns to the loop has moved the cursor
\* forward by at least one character.
C2_CursorAdvances == [][(pc = "loop" /\ pc' = "loop") => i' >= i + 1]_vars

\* the identifier reader at its smallest advance: '%x..' consumes '%' alone
C2_Witness ==
    /\ pc = "done"
    /\ \E n \in 1..Len(spans) : spans[n].op = "macro" /\ spans[n].skip = 1
    /\ {"fast", "comment", "escape", "code", "math"} \cap {spans[n].op : n \in 1..Len(spans)} = {}

\* C3 as stated: a document with none of the trigger characters (%, <!--, quotes,
\* backslash, $) is returned without error, with its runs of newlines collapsed to two.
C3_NoTriggerCopied ==
    (Ended /\ NoTrigger(contents)) =>
        result.err = "none" /\ result.text = CollapseNewlines(contents)

\* C3 amended: a document with none of the trigger characters and no backtick is
\* returned without error, with its runs of newlines collapsed to two.
C3_NoTriggerNoBacktickCopied ==
    (Ended /\ NoTrigger(contents) /\ BT \notin Range(contents)) =>
        result.err = "none" /\ result.text = CollapseNewlines(contents)

\* a trigger-free document longer than a chunk whose newlines were collapsed
C3_Witness ==
    /\ pc = "done"
    /\ NoTrigger(contents) /\ BT \notin Range(contents)
    /\ \E n \in 1..Len(spans) : spans[n].op = "fast"
    /\ Len(result.text) < Len(contents)

\* the longest output that is preprocessed a second time
MaxAgain == 40

\* C4: when preprocess succeeds and its output holds no trigger character, preprocess
\* of the output succeeds and returns it unchanged (outputs of at most MaxAgain
\* characters).
C4_Idempotent ==
    (pc = "done" /\ NoTrigger(result.text) /\ Len(result.text) <= MaxAgain) =>
        /\ preprocess_text(result.text, target_format, 0).err = "none"
        /\ preprocess_text(result.text, target_format, 0).text = result.text

\* C5: an escape backslash+X met by the driver is copied to the output as the pair,
\* and no later iteration starts at X.
C5_EscapeLiteral ==
    \A n \in 1..Len(spans) :
        (spans[n].op = "escape" /\ spans[n].at + 1 < Len(contents)) =>
            /\ spans[n].text = <<"\\", At(contents, spans[n].at + 1)>>
            /\ \A m \in 1..Len(spans) : spans[m].at # spans[n].at + 1

\* an escaped %, backtick or $ with text after it
C5_Witness ==
    /\ pc = "done"
    /\ \E n \in 1..Len(spans) :
        /\ spans[n].op = "escape"
        /\ spans[n].at + 2 < Len(contents)
        /\ At(contents, spans[n].at + 1) \in {"%", BT, "$"}
        /\ At(contents, spans[n].at + 2) = "x"

\* the readers that turn a macro form into a span
MacroOps == {"macro", "expression", "block", "file", "conditional", "md"}

\* the characters of plain text
PlainChars == Letters \cup {" ", "\n"}

\* cont[q..r] is an inline code span: the first backtick of a document that starts
\* with plain text, up to the next backtick, with no backslash between them
InlineCodeSpan(cont, q, r) ==
    /\ q + 1 < r /\ r < Len(cont)
    /\ At(cont, q) = BT /\ At(cont, r) = BT
    /\ \A j \in 0..(q - 1) : At(cont, j) \in PlainChars
    /\ \A j \in (q + 1)..(r - 1) : At(cont, j) \notin {BT, "\\"}

\* C6: no macro form between the backticks of a code span is read as a macro, and the
\* span is written to the output as it stands (the text before it is copied as it
\* stands, so the span keeps its place in the output).
C6_CodeSpanPrecedence ==
    Ended =>
        \A q \in 0..(Len(contents) - 1), r \in 0..(Len(contents) - 1) :
            InlineCodeSpan(contents, q, r) =>
                /\ \A n \in 1..Len(spans) :
                       ~(spans[n].op \in MacroOps /\ q < spans[n].at /\ spans[n].at < r)
                /\ pc = "done" => Slice(new_text, q, r + 1) = Slice(contents, q, r + 1)

----------------------------------------------------------------------------
(* find_matching_bracket called on its own *)

\* the longest body between the outer parentheses
MaxBody == 4

BracketAlphabet == {"(", ")", "[", "]", "\\", "'", "a"}

BracketInputs == {<<"(">> \o body \o <<")">> : body \in Strings(BracketAlphabet, MaxBody)}

InitBracket ==
    \E input \in BracketInputs :
        /\ contents = input
        /\ target_format = NoneFormat
        /\ i = 0
        /\ new_text = <<>>
        /\ check_chunks_idx = 0
        /\ pc = "call"
        /\ result = [err |-> "none", text |-> <<>>, pos |-> 0, msg |-> ""]
        /\ spans = <<>>
        /\ ret = Ret(0)
        /\ NoServer /\ NoBuild /\ NoCapture

\* find_matching_bracket(contents, 0)
FindMatchingBracket ==
    /\ pc = "call"
    /\ ret' = find_matching_bracket(contents, 0, FALSE, FALSE)
    /\ pc' = "returned"
    /\ UNCHANGED <<contents, target_format, i, new_text, check_chunks_idx, result, spans>>
    /\ UNCHANGED <<serverVars, buildVars, captureVars>>

NextBracket == FindMatchingBracket

SpecBracket == InitBracket /\ [][NextBracket]_vars

\* the body between the outer parentheses
BodyOf(input) == Slice(input, 1, Len(input) - 1)

\* the number of backslashes that stand directly before s[k]
BackslashesBefore(s, k) == k - 1 - GreatestOr({j \in 1..(k - 1) : s[j] # "\\"}, 0)

\* s[k] is escaped: an odd number of backslashes stands directly before it
Escaped(s, k) == BackslashesBefore(s, k) % 2 = 1

\* the brackets of s that are not escaped are balanced, each kind closed by its own
RECURSIVE BalancedFrom(_, _, _)
BalancedFrom(s, k, open) ==
    IF k > Len(s) THEN open = <<>>
    ELSE IF s[k] = "\\" THEN BalancedFrom(s, k + 2, open)
    ELSE IF s[k] \in DOMAIN bracket_map THEN BalancedFrom(s, k + 1, <<s[k]>> \o open)
    ELSE IF s[k] \in {bracket_map[b] : b \in DOMAIN bracket_map}
    THEN open # <<>> /\ bracket_map[Head(open)] = s[k] /\ BalancedFrom(s, k + 1, Tail(open))
    ELSE BalancedFrom(s, k + 1, open)

Balanced(s) == BalancedFrom(s, 1, <<>>)

\* no quote of s starts a string: every quote is escaped
NoUnescapedString(s) == \A k \in 1..Len(s) : s[k] \in {"'", "\""} => Escaped(s, k)

\* s ends with a backslash that escapes nothing inside s
EndsInBackslash(s) == BackslashesBefore(s, Len(s) + 1) % 2 = 1

\* C7 as stated: for "(" + body + ")" with balanced brackets and no unescaped string in
\* body, find_matching_bracket at index 0 returns the index of the final ')'.
C7_MatchesFinalBracket ==
    (pc = "returned" /\ Balanced(BodyOf(contents)) /\ NoUnescapedString(BodyOf(contents))) =>
        ret = Ret(Len(contents) - 1)

\* C7 amended: for "(" + body + ")" with balanced brackets and no unescaped string in
\* body, and body not ending in a backslash that would escape the final ')',
\* find_matching_bracket at index 0 returns the index of the final ')'.
C7_MatchesFinalBracketUnescaped ==
    ( /\ pc = "returned"
      /\ Balanced(BodyOf(contents))
      /\ NoUnescapedString(BodyOf(contents))
      /\ ~EndsInBackslash(BodyOf(contents)) ) =>
        ret = Ret(Len(contents) - 1)

\* a body with a nested pair of parentheses and an escaped character
C7_Witness ==
    /\ pc = "returned"
    /\ Balanced(BodyOf(contents)) /\ NoUnescapedString(BodyOf(contents))
    /\ ~EndsInBackslash(BodyOf(contents))
    /\ Contains(BodyOf(contents), Chars("()"))
    /\ "\\" \in Range(BodyOf(contents))
    /\ ret = Ret(Len(contents) - 1)

----------------------------------------------------------------------------
(* Properties of the macro readers *)

\* the text the iteration recorded in span s consumed
Consumed(s) == Slice(contents, s.at, s.at + s.skip)

\* the argument of a document of RawDocs
RawBody(doc) == Slice(doc, 4, Len(doc) - 2)

\* no two braces stand side by side in body, and its braces are balanced
SingleBraces(body) ==
    /\ \A k \in 1..(Len(body) - 1) : ~(body[k] \in {"{", "}"} /\ body[k + 1] \in {"{", "}"})
    /\ Balanced(body)

\* C8: for the raw macro %f{{body}} the argument read is exactly body, inner single
\* braces included wherever they stand, and the consumed text ends at the doubled
\* closing braces.
C8_RawArgumentExact ==
    ( /\ Ended
      /\ Len(contents) >= 6 /\ contents = RawDoc(RawBody(contents))
      /\ Range(RawBody(contents)) \subseteq RawArgAlphabet
      /\ SingleBraces(RawBody(contents)) ) =>
        /\ pc = "done"
        /\ Len(spans) = 1
        /\ spans[1].op = "macro" /\ spans[1].skip = Len(contents)
        /\ Contains(spans[1].text,
                    Chars("f(r\"\"\"") \o RawBody(contents) \o Chars("\"\"\")"))

\* the span ends with a ';' that is not the fill character of a ':;' specifier
EndsQuiet(s) ==
    /\ s.skip >= 2
    /\ At(contents, s.at + s.skip - 1) = ";"
    /\ At(contents, s.at + s.skip - 2) # ":"

\* C9: the code span of an identifier, expression or raw macro that is followed by ';'
\* carries the quiet class and no print(...) wrapper, with or without a format
\* specifier.
C9_QuietNoPrint ==
    \A n \in 1..Len(spans) :
        (spans[n].op \in {"macro", "expression"} /\ EndsQuiet(spans[n])) =>
            /\ Contains(spans[n].text, Chars(" .quiet"))
            /\ ~Contains(spans[n].text, Chars("print("))

\* a quiet macro with a format specifier
C9_Witness ==
    \E n \in 1..Len(spans) :
        /\ spans[n].op = "macro" /\ EndsQuiet(spans[n])
        /\ Contains(Consumed(spans[n]), Chars("f(x):.2f;"))
        /\ Contains(spans[n].text, Chars(" f(x) "))

\* the line of cont[a:b] holds only blanks before a and after b
AloneOnLine(cont, a, b) ==
    /\ \A j \in (GreatestOr({p \in 0..(a - 1) : At(cont, p) = "\n"}, -1) + 1)..(a - 1) :
           At(cont, j) \in {" ", "\t"}
    /\ \A j \in b..(NextOf(cont, b, {"\n"}) - 1) : At(cont, j) \in {" ", "\t"}

\* C10: an identifier, expression, raw or brace-block macro with only whitespace before
\* and after it on its line is emitted as a fenced block, on the first line as on the
\* later ones.
C10_SoloIsFenced ==
    \A n \in 1..Len(spans) :
        ( /\ spans[n].op \in {"macro", "expression", "block"}
          /\ AloneOnLine(contents, spans[n].at, spans[n].at + spans[n].skip) ) =>
            StartsWith(spans[n].text, 0, <<"\n", BT, BT, BT, "{">>)

\* C11: a macro with text other than blanks before its start on its first line, or
\* after its end on its last line, is emitted as an inline double-backtick span and
\* never as a fenced block, single-line or multi-line, wherever it stands.
C11_NotSoloIsInline ==
    \A n \in 1..Len(spans) :
        ( /\ spans[n].op \in {"macro", "expression", "block"}
          /\ ~AloneOnLine(contents, spans[n].at, spans[n].at + spans[n].skip) ) =>
            StartsWith(spans[n].text, 0, <<BT, BT, " ">>)

\* the class list the macro text of a span asks for: py-md for a doubled percent and
\* py otherwise, quiet for a trailing ';', inline or block for an i or b prefix
ClassesOf(s) ==
    (IF Contains(SliceTo(Consumed(s), 3), Chars("%%")) THEN Chars(".py-md") ELSE Chars(".py"))
    \o (IF EndsQuiet(s) THEN Chars(" .quiet") ELSE <<>>)
    \o (CASE Consumed(s)[1] = "i" -> Chars(" .inline")
          [] Consumed(s)[1] = "b" -> Chars(" .block")
          [] OTHER -> <<>>)

\* C12: the span of an identifier, expression or raw macro carries exactly the classes
\* py-md or py, then quiet iff a trailing ';' was consumed, then inline or block iff an
\* i or b prefix was given; a py-md body is never wrapped in print; and "Value: %x;"
\* yields the inline span of body x with the classes .py .quiet.
C12_ExactClassList ==
    /\ \A n \in 1..Len(spans) :
           spans[n].op \in {"macro", "expression"} =>
               /\ \/ EndsWith(spans[n].text, <<" ", BT, BT, "{">> \o ClassesOf(spans[n]) \o <<"}">>)
                  \/ StartsWith(spans[n].text, 0,
                                <<"\n", BT, BT, BT, "{">> \o ClassesOf(spans[n]) \o <<"}", "\n">>)
               /\ Contains(spans[n].text, Chars(".py-md")) =>
                      ~Contains(spans[n].text, Chars("print("))
    /\ (pc = "done" /\ contents = Chars("Value: %x;")) =>
           result.text = Chars("Value: ") \o <<BT, BT>> \o Chars(" x ") \o <<BT, BT>>
                         \o Chars("{.py .quiet}")

\* a doubled-percent quiet macro with a b prefix has been emitted
C12_Witness ==
    /\ pc = "done"
    /\ \E n \in 1..Len(spans) :
           /\ spans[n].op = "macro"
           /\ ClassesOf(spans[n]) = Chars(".py-md .quiet .block")
           /\ Contains(spans[n].text, Chars("{.py-md .quiet .block}"))

----------------------------------------------------------------------------
(* Properties of the inclusion readers *)

\* what preprocess makes of the files f and g
PreprocessedFile(path) ==
    IF path = Chars("f") THEN <<BT, BT>> \o Chars(" print(x) ") \o <<BT, BT>> \o Chars("{.py}")
    ELSE Chars("a\n\nb")

\* the clause of <<first, second>> that is used for target: the first that names it
UsedClause(first, second, target) ==
    IF Lower(target) \in first.fmts THEN <<first>>
    ELSE IF Lower(target) \in second.fmts THEN <<second>>
    ELSE <<>>

\* what the construct of the clauses first and second expands to
ExpandsTo(used) ==
    IF used = <<>> THEN pc = "done" /\ result.text = <<>>
    ELSE used[1].path \in DOMAIN FileSystem =>
             pc = "done" /\ result.text = PreprocessedFile(used[1].path)

\* C13: a %%%mdifformat{...} construct expands to the preprocessed contents of the file
\* of the first clause whose format list names the target format, case-insensitively;
\* the files of the other clauses are not read (a missing one raises nothing); when no
\* clause matches the construct is consumed whole and expands to the empty string.
C13_FirstMatchingClause ==
    Ended =>
        \A first \in ConditionalClauses, second \in ConditionalClauses,
           sep \in ConditionalSeparators :
            contents = ConditionalDoc(first, sep, second) =>
                /\ ExpandsTo(UsedClause(first, second, target_format))
                /\ pc = "done" => Len(spans) = 1 /\ spans[1].skip = Len(contents)

\* the second clause is used, matched by an upper-case format, and the first clause
\* names a file that does not exist
C13_Witness ==
    /\ pc = "done"
    /\ contents = Chars("%%%mdifformat{x:n;m, L: g}")
    /\ target_format = Chars("l")
    /\ result.text = Chars("a\n\nb")

----------------------------------------------------------------------------
(* Properties of the errors *)

\* C14: a run that fails on an unterminated code span, math span, bracket or string
\* fails with the parse error of throw_parsing_error, anchored at the opening
\* delimiter, and in no other way (documents over ScanAlphabet, whose only constructs
\* are code, math, brackets and macros).
C14_UnterminatedIsParseError ==
    (pc = "error" /\ Range(contents) \subseteq ScanAlphabet) =>
        /\ result.err = "parse"
        /\ result.pos < Len(contents)
        /\ At(contents, result.pos) \in {BT, "$", "(", "%"}

----------------------------------------------------------------------------
(* The execution server: exec and eval in the shared namespace *)

\* the names the code of the requests binds and reads; 0 is "not bound"
Names == {"x"}
Unbound == 0
EmptyNamespace == [n \in Names |-> Unbound]

\* the statements of the code of a request
Bind(n, v) == [op |-> "bind", name |-> n, value |-> v]
PrintName(n) == [op |-> "print", name |-> n, value |-> 0]
RaiseException == [op |-> "raise", name |-> "", value |-> 0]
SysExit == [op |-> "exit", name |-> "", value |-> 0]

\* str(value)
Str(v) == IF v = 1 THEN <<"1">> ELSE <<"2">>

\* exec(code, globals()) from statement k on: the namespace and the text printed when it
\* ends, and how it ends: normally, with an Exception (raise, or the NameError of
\* reading a name that is not bound) or with SystemExit
RECURSIVE Exec(_, _, _, _)
Exec(code, k, ns, out) ==
    IF k > Len(code) THEN [exc |-> "none", ns |-> ns, out |-> out]
    ELSE IF code[k].op = "bind"
    THEN Exec(code, k + 1, [ns EXCEPT ![code[k].name] = code[k].value], out)
    ELSE IF code[k].op = "print" /\ ns[code[k].name] # Unbound
    THEN Exec(code, k + 1, ns, out \o Str(ns[code[k].name]) \o <<"\n">>)
    ELSE IF code[k].op = "exit" THEN [exc |-> "SystemExit", ns |-> ns, out |-> out]
    ELSE [exc |-> "Exception", ns |-> ns, out |-> out]

\* out with a single newline stripped from its end
StripOneNewline(out) == IF EndsWith(out, <<"\n">>) THEN SliceTo(out, -1) ELSE out

CaptureReturned(r) == [exc |-> r.exc, ns |-> r.ns, out |-> StripOneNewline(r.out)]

\* capture_output that runs the code in a fresh namespace
CaptureFresh(code, ns) == CaptureReturned(Exec(code.body, 1, EmptyNamespace, <<>>))

\* capture_output(code): deindent raises on inconsistent indentation, before exec
capture_output(code, ns) ==
    IF ~code.indented THEN [exc |-> "Exception", ns |-> ns, out |-> <<>>]
    ELSE CaptureReturned(Exec(code.body, 1, ns, <<>>))

\* capture_value(code): eval(code, globals()); the class of the value, or the exception
capture_value(expr, ns) ==
    CASE expr.kind = "name" ->
             IF ns[expr.name] = Unbound THEN [exc |-> "Exception", class |-> "none"]
             ELSE [exc |-> "none", class |-> "int"]
      [] expr.kind = "raise" -> [exc |-> "Exception", class |-> "none"]
      [] expr.kind = "exit" -> [exc |-> "SystemExit", class |-> "none"]
      [] OTHER -> [exc |-> "none", class |-> expr.kind]

----------------------------------------------------------------------------
(* The execution server: the request handlers *)

Response(type, message) == [type |-> type, message |-> message]

\* what a handler did: the responses it sent, the exception it ended with or "none",
\* the value it returned, and the namespace it left
Handled(sent, continue, ns) == [sent |-> sent, exc |-> "none", continue |-> continue, ns |-> ns]
Raised(sent, exc, ns) == [sent |-> sent, exc |-> exc, continue |-> TRUE, ns |-> ns]

\* ping_handler that returns False
PingStops(message, ns) == Handled(<<Response("ping", "pong")>>, FALSE, ns)

ping_handler(message, ns) == Handled(<<Response("ping", "pong")>>, TRUE, ns)

shutdown_handler(message, ns) ==
    Handled(<<Response("shutdown", "Shutting down server.")>>, FALSE, ns)

\* the response to the output of capture_output, or to its exception
OutputSent(r) ==
    CASE r.exc = "none" -> Handled(<<Response("string", r.out)>>, TRUE, r.ns)
      [] r.exc = "Exception" -> Handled(<<Response("error", "Error")>>, TRUE, r.ns)
      [] OTHER -> Raised(<<>>, r.exc, r.ns)

\* message['message'] is read before the try
string_handler(message, ns) ==
    IF message.message.kind = "missing" THEN Raised(<<>>, "KeyError", ns)
    ELSE OutputSent(capture_output(message.message.code, ns))

\* the value is a document fragment, a list of one, or a latex token: sent as an object;
\* any other value is a ValueError raised outside the try
ObjectSent(v, ns) ==
    CASE v.exc = "Exception" -> Handled(<<Response("error", "Error")>>, TRUE, ns)
      [] v.exc = "SystemExit" -> Raised(<<>>, "SystemExit", ns)
      [] v.class \in {"Element", "ListOfOneElement", "Token"} ->
             Handled(<<Response("object", "json")>>, TRUE, ns)
      [] OTHER -> Raised(<<>>, "Exception", ns)

\* message['message'] is read inside the try
object_handler(message, ns) ==
    IF message.message.kind = "missing"
    THEN Handled(<<Response("error", "Error")>>, TRUE, ns)
    ELSE ObjectSent(capture_value(message.message.expr, ns), ns)

\* the code files of the working directory
CodeFiles == {"set_x.py", "raise.py"}

file_handler(message, ns) ==
    IF message.message.kind = "missing" THEN Raised(<<>>, "KeyError", ns)
    ELSE IF message.message.path \notin CodeFiles
    THEN Handled(<<Response("error", "File not found")>>, TRUE, ns)
    ELSE OutputSent(capture_output(message.message.code, ns))

handlers == {"ping", "shutdown", "string", "object", "file"}

Handler(message, ns) ==
    CASE message.type = "ping" -> ping_handler(message, ns)
      [] message.type = "shutdown" -> shutdown_handler(message, ns)
      [] message.type = "string" -> string_handler(message, ns)
      [] message.type = "object" -> object_handler(message, ns)
      [] OTHER -> file_handler(message, ns)

\* what handle_client did: the responses sent, whether the connection was closed,
\* whether listening was set, the exception the thread died of or "none", the namespace
Served(sent, closed, set, died, ns) ==
    [sent |-> sent, closed |-> closed, set |-> set, died |-> died, ns |-> ns]

\* the except clauses and the finally clause of handle_client around the handler's h;
\* an exception that is not an Exception leaves continue_listening unbound, and the
\* finally clause dies of it after closing the connection
ClientHandled(h) ==
    CASE h.exc = "none" -> Served(h.sent, TRUE, ~h.continue, "none", h.ns)
      [] h.exc = "KeyError" ->
             Served(h.sent \o <<Response("error", "Invalid message type")>>, TRUE, FALSE,
                    "none", h.ns)
      [] h.exc = "Exception" ->
             Served(h.sent \o <<Response("error", "Error")>>, TRUE, FALSE, "none", h.ns)
      [] OTHER -> Served(h.sent, TRUE, FALSE, "UnboundLocalError", h.ns)

\* message['type'] and handlers[message['type']]: a message without a type raises
\* KeyError, and the except clause that reports it reads message['type'] again
TypedMessage(message, ns) ==
    IF message.type = "missing" THEN Served(<<>>, TRUE, FALSE, "UnboundLocalError", ns)
    ELSE IF message.type \notin handlers
    THEN Served(<<Response("error", "Invalid message type")>>, TRUE, FALSE, "none", ns)
    ELSE ClientHandled(Handler(message, ns))

\* handle_client on the data received: nothing, bytes that are not UTF-8, text that is
\* not JSON, JSON that is not an object, or a message
handle_client(data, ns) ==
    CASE data.json = "empty" -> Served(<<>>, FALSE, FALSE, "none", ns)
      [] data.json = "invalid" ->
             Served(<<Response("error", "Invalid JSON")>>, TRUE, FALSE, "none", ns)
      [] data.json \in {"undecodable", "scalar"} ->
             Served(<<Response("error", "Error")>>, TRUE, FALSE, "none", ns)
      [] OTHER -> TypedMessage(data, ns)

----------------------------------------------------------------------------
(* The execution server: the main thread and the client threads *)

MAX_TIMEOUT == 60

\* time_per_request is 0.1 seconds: the polling intervals in one second
PollsPerSecond == 10

\* MAX_TIMEOUT / time_per_request
MaxTimeouts == MAX_TIMEOUT * PollsPerSecond

\* a client thread that was started on a connection, before handle_client has run
Started(data) ==
    [data |-> data, state |-> "started", sent |-> <<>>, closed |-> FALSE, died |-> "none"]

\* the thread after handle_client has returned or died
Finished(data, served) ==
    [data |-> data, state |-> "finished", sent |-> served.sent, closed |-> served.closed,
     died |-> served.died]

\* client_thread.start() on an accepted connection whose client sends data
ServeClient(data) == threads' = Append(threads, Started(data))

\* the thread of connection t runs handle_client; listening.set() is its last step
HandleClient(t) ==
    /\ t \in 1..Len(threads)
    /\ threads[t].state = "started"
    /\ threads' = [threads EXCEPT
                      ![t] = Finished(threads[t].data, handle_client(threads[t].data, namespace))]
    /\ namespace' = handle_client(threads[t].data, namespace).ns
    /\ listening' = (listening \/ handle_client(threads[t].data, namespace).set)
    /\ UNCHANGED <<timeouts, main_pc, accept_result>>
    /\ UNCHANGED <<docVars, buildVars, captureVars>>

\* the state at the entry of the outer loop of main()
InitServerState ==
    /\ timeouts = MaxTimeouts
    /\ listening = FALSE
    /\ main_pc = "while_listening"
    /\ accept_result = "none"
    /\ threads = <<>>
    /\ namespace = EmptyNamespace

\* the preprocessor is not running
NoDocument ==
    /\ contents = <<>>
    /\ target_format = NoneFormat
    /\ i = 0
    /\ new_text = <<>>
    /\ check_chunks_idx = 0
    /\ pc = "none"
    /\ result = [err |-> "none", text |-> <<>>, pos |-> 0, msg |-> ""]
    /\ spans = <<>>
    /\ ret = Ret(0)

\* while timeouts > 0: the line the main thread goes to with `left` intervals left
InnerLoop(left) == IF left > 0 THEN "if_listening" ELSE "if_timed_out"

\* while not listening.is_set(): while timeouts > 0:
WhileListening ==
    /\ main_pc = "while_listening"
    /\ main_pc' = IF listening THEN "if_shutdown" ELSE InnerLoop(timeouts)
    /\ UNCHANGED <<timeouts, listening, accept_result, threads, namespace>>
    /\ UNCHANGED <<docVars, buildVars, captureVars>>

\* IfListening that does not look at the event
IfListeningIgnored ==
    /\ main_pc = "if_listening"
    /\ main_pc' = "accept"
    /\ UNCHANGED <<timeouts, listening, accept_result, threads, namespace>>
    /\ UNCHANGED <<docVars, buildVars, captureVars>>

\* if listening.is_set(): break
IfListening ==
    /\ main_pc = "if_listening"
    /\ main_pc' = IF listening THEN "if_timed_out" ELSE "accept"
    /\ UNCHANGED <<timeouts, listening, accept_result, threads, namespace>>
    /\ UNCHANGED <<docVars, buildVars, captureVars>>

\* accept() times out after time_per_request: timeouts -= 1
AcceptTimeout ==
    /\ main_pc = "accept"
    /\ accept_result' = "timeout"
    /\ timeouts' = timeouts - 1
    /\ main_pc' = InnerLoop(timeouts - 1)
    /\ UNCHANGED <<listening, threads, namespace>>
    /\ UNCHANGED <<docVars, buildVars, captureVars>>

\* the most client threads started in one run
MaxConnections == 2

\* accept() returns a connection from HOST: its thread is started and timeouts is reset
AcceptConnection(data) ==
    /\ main_pc = "accept"
    /\ Len(threads) < MaxConnections
    /\ accept_result' = "connection"
    /\ ServeClient(data)
    /\ timeouts' = MaxTimeouts
    /\ main_pc' = InnerLoop(MaxTimeouts)
    /\ UNCHANGED <<listening, namespace>>
    /\ UNCHANGED <<docVars, buildVars, captureVars>>

\* accept() returns a connection from another address: refused, `continue`
AcceptRefused ==
    /\ main_pc = "accept"
    /\ accept_result' = "refused"
    /\ main_pc' = InnerLoop(timeouts)
    /\ UNCHANGED <<timeouts, listening, threads, namespace>>
    /\ UNCHANGED <<docVars, buildVars, captureVars>>

\* accept() or the start of the thread raises another exception: timeouts is reset
AcceptError ==
    /\ main_pc = "accept"
    /\ accept_result' = "error"
    /\ timeouts' = MaxTimeouts
    /\ main_pc' = InnerLoop(MaxTimeouts)
    /\ UNCHANGED <<listening, threads, namespace>>
    /\ UNCHANGED <<docVars, buildVars, captureVars>>

\* after the inner loop: if not listening.is_set(): break
IfTimedOut ==
    /\ main_pc = "if_timed_out"
    /\ main_pc' = IF listening THEN "while_listening" ELSE "if_shutdown"
    /\ UNCHANGED <<timeouts, listening, accept_result, threads, namespace>>
    /\ UNCHANGED <<docVars, buildVars, captureVars>>

\* after the outer loop: the log lines, and main() returns
IfShutdown ==
    /\ main_pc = "if_shutdown"
    /\ main_pc' = "done"
    /\ UNCHANGED <<timeouts, listening, accept_result, threads, namespace>>
    /\ UNCHANGED <<docVars, buildVars, captureVars>>

\* the requests sent to the server while its main loop is followed
MainRequests ==
    { [json |-> "object", type |-> "shutdown", message |-> [kind |-> "missing"]],
      [json |-> "object", type |-> "ping", message |-> [kind |-> "missing"]] }

InitServer == InitServerState /\ NoDocument /\ NoBuild /\ NoCapture

\* the steps of the main thread
Main ==
    \/ WhileListening
    \/ IfListening
    \/ AcceptTimeout
    \/ \E data \in MainRequests : AcceptConnection(data)
    \/ AcceptRefused
    \/ AcceptError
    \/ IfTimedOut
    \/ IfShutdown

NextServer ==
    \/ Main
    \/ \E t \in 1..MaxConnections : HandleClient(t)

\* the main thread keeps running, and accept() returns within time_per_request
SpecServer == InitServer /\ [][NextServer]_vars /\ WF_vars(Main)

----------------------------------------------------------------------------
(* The execution server: the requests of the clients *)

Program(body) == [indented |-> TRUE, body |-> body]

\* the code of the string requests; the last one is indented inconsistently
Programs ==
    { Program(<<Bind("x", 1)>>), Program(<<Bind("x", 2)>>), Program(<<PrintName("x")>>),
      Program(<<Bind("x", 1), Bind("x", 2)>>),
      Program(<<Bind("x", 1), RaiseException>>), Program(<<RaiseException>>), Program(<<SysExit>>),
      [indented |-> FALSE, body |-> <<Bind("x", 2)>>] }

\* the expressions of the object requests: a name, a document fragment, a list of one
\* fragment, a latex token, a list of two fragments, raise and sys.exit()
Expressions ==
    { [kind |-> "name", name |-> "x"], [kind |-> "Element", name |-> ""],
      [kind |-> "ListOfOneElement", name |-> ""], [kind |-> "Token", name |-> ""],
      [kind |-> "ListOfTwoElements", name |-> ""], [kind |-> "raise", name |-> ""],
      [kind |-> "exit", name |-> ""] }

\* the paths of the file requests with the code of the file; absent.py does not exist
Paths ==
    { [kind |-> "path", path |-> "set_x.py", code |-> Program(<<Bind("x", 2)>>)],
      [kind |-> "path", path |-> "raise.py", code |-> Program(<<RaiseException>>)],
      [kind |-> "path", path |-> "absent.py", code |-> Program(<<>>)] }

NoMessage == [kind |-> "missing"]

Message(type, message) == [json |-> "object", type |-> type, message |-> message]

\* what a client sends: nothing, bytes that are not UTF-8, text that is not JSON, JSON
\* that is not an object, a message without a type or of an unknown type, and the
\* messages of the five types
Requests ==
    { [json |-> kind] : kind \in {"empty", "undecodable", "invalid", "scalar"} }
    \cup { Message(type, NoMessage) :
             type \in {"missing", "other", "ping", "shutdown", "string", "object", "file"} }
    \cup { Message("string", [kind |-> "code", code |-> code]) : code \in Programs }
    \cup { Message("object", [kind |-> "expr", expr |-> expr]) : expr \in Expressions }
    \cup { Message("file", path) : path \in Paths }

\* the most requests sent to the server in one run
MaxRequests == 2

\* the main thread accepts a connection and starts its thread; the checks of the
\* loop between two accepts are followed in SpecServer
Serve(data) ==
    /\ main_pc = "accept"
    /\ Len(threads) < MaxRequests
    /\ ServeClient(data)
    /\ UNCHANGED <<timeouts, listening, main_pc, accept_result, namespace>>
    /\ UNCHANGED <<docVars, buildVars, captureVars>>

InitHandler ==
    /\ timeouts = MaxTimeouts
    /\ listening = FALSE
    /\ main_pc = "accept"
    /\ accept_result = "none"
    /\ threads = <<>>
    /\ namespace = EmptyNamespace
    /\ NoDocument /\ NoBuild /\ NoCapture

NextHandler ==
    \/ \E data \in Requests : Serve(data)
    \/ \E t \in 1..MaxRequests : HandleClient(t)

SpecHandler == InitHandler /\ [][NextHandler]_vars

----------------------------------------------------------------------------
(* Properties of the server's main loop *)

\* C15: once the shutdown event is set the main thread starts no accept call (at most
\* the one it had already decided to make is performed), and it then leaves both loops
\* and returns.
C15_ShutdownExitsLoop ==
    /\ [][(listening /\ main_pc # "accept") => main_pc' # "accept"]_vars
    /\ (listening ~> main_pc = "done")

\* a shutdown request was answered and the main thread returned before the idle timeout
C15_Witness ==
    /\ listening
    /\ main_pc = "done"
    /\ timeouts = MaxTimeouts
    /\ \E t \in 1..Len(threads) :
           /\ threads[t].data.type = "shutdown"
           /\ threads[t].sent = <<Response("shutdown", "Shutting down server.")>>

\* C16: the idle counter goes up only when a connection is accepted and goes down by
\* one per polling interval that times out; without a shutdown request the main thread
\* returns exactly when the counter has reached 0, that is after MAX_TIMEOUT /
\* time_per_request consecutive intervals without an accepted connection; and a server
\* that receives no connection returns.
C16_IdleTimeout ==
    /\ [][ /\ timeouts' > timeouts => Len(threads') > Len(threads)
           /\ timeouts' < timeouts => timeouts' = timeouts - 1 /\ accept_result' = "timeout"
         ]_vars
    /\ []((main_pc = "done" /\ ~listening) => timeouts = 0)
    /\ <>(main_pc = "done" \/ accept_result \in {"connection", "refused"})

----------------------------------------------------------------------------
(* Properties of the request handlers *)

\* the thread of connection t has run handle_client to its end
Done(t) == threads[t].state = "finished"

\* the data of connection t is a message of the given type
OfType(t, type) == threads[t].data.json = "object" /\ threads[t].data.type = type

\* the code fails: its indentation is inconsistent, or it raises or exits
CodeFails(code) ==
    \/ ~code.indented
    \/ \E k \in 1..Len(code.body) : code.body[k].op \in {"raise", "exit"}

\* connection t carries a string, object or file request whose code fails
FailingRequest(t) ==
    \/ OfType(t, "string") /\ threads[t].data.message.kind = "code"
           /\ CodeFails(threads[t].data.message.code)
    \/ OfType(t, "object") /\ threads[t].data.message.kind = "expr"
           /\ threads[t].data.message.expr.kind \in {"raise", "exit"}
    \/ OfType(t, "file") /\ threads[t].data.message.kind = "path"
           /\ threads[t].data.message.path \in CodeFiles
           /\ CodeFails(threads[t].data.message.code)

\* exactly one response was sent on connection t, of type error, and it is closed
OneErrorThenClosed(t) ==
    /\ Len(threads[t].sent) = 1
    /\ threads[t].sent[1].type = "error"
    /\ threads[t].closed

\* C17: a string, object or file request whose code fails while executing is answered
\* with exactly one response of type error and its connection is closed; and no
\* request ends without a response having been sent.
C17_FailureAnswered ==
    \A t \in 1..Len(threads) :
        Done(t) =>
            /\ FailingRequest(t) => OneErrorThenClosed(t)
            /\ Len(threads[t].sent) >= 1

\* connection t carries a protocol error: data that is not JSON, a message whose type
\* is missing or unknown, or an object request whose value is not a single fragment
ProtocolError(t) ==
    \/ threads[t].data.json = "invalid"
    \/ OfType(t, "missing")
    \/ OfType(t, "other")
    \/ OfType(t, "object") /\ threads[t].data.message.kind = "expr"
           /\ threads[t].data.message.expr.kind = "ListOfTwoElements"

\* C18: a request with a protocol error is answered with one response of type error
\* and its connection is then closed.
C18_ProtocolErrorAnswered ==
    \A t \in 1..Len(threads) : (Done(t) /\ ProtocolError(t)) => OneErrorThenClosed(t)

\* C19: a ping is answered with type ping and message pong, and the shutdown event is
\* set only when a message of type shutdown has been handled: no ping, string, object
\* or file request and no request that fails sets it.
C19_OnlyShutdownStops ==
    /\ \A t \in 1..Len(threads) :
           (Done(t) /\ OfType(t, "ping")) => threads[t].sent = <<Response("ping", "pong")>>
    /\ listening => \E t \in 1..Len(threads) : Done(t) /\ OfType(t, "shutdown")

\* a ping and a request whose code raises have been handled and the event is not set
C19_Witness ==
    /\ ~listening
    /\ \E t \in 1..Len(threads) : Done(t) /\ OfType(t, "ping") /\ threads[t].closed
    /\ \E t \in 1..Len(threads) :
           Done(t) /\ FailingRequest(t) /\ OneErrorThenClosed(t)

\* the code connection t runs: that of a string request, or of the file of a file request
RunsCode(t) ==
    \/ OfType(t, "string") /\ threads[t].data.message.kind = "code"
    \/ OfType(t, "file") /\ threads[t].data.message.kind = "path"
           /\ threads[t].data.message.path \in CodeFiles

\* the positions of body that bind n
BindsOf(body, n) == {k \in 1..Len(body) : body[k].op = "bind" /\ body[k].name = n}

\* the value body assigns last to n
LastAssigned(body, n) == body[GreatestOr(BindsOf(body, n), 1)].value

\* the thread of connection t runs handle_client in this step
Runs(t) == t <= Len(threads) /\ threads[t].state = "started" /\ threads'[t].state = "finished"

\* C20: the namespace changes only when the code of a string or file request binds a
\* name, which then holds the value assigned last, also when the code fails later on;
\* and the code of a later request that prints the name prints that value.
C20_NamespacePersists ==
    [][ /\ namespace' # namespace =>
               \E t \in 1..MaxRequests, n \in Names :
                   /\ Runs(t) /\ RunsCode(t)
                   /\ BindsOf(threads[t].data.message.code.body, n) # {}
        /\ \A t \in 1..MaxRequests, n \in Names :
               ( /\ Runs(t) /\ RunsCode(t)
                 /\ threads[t].data.message.code.indented
                 /\ BindsOf(threads[t].data.message.code.body, n) # {} ) =>
                   namespace'[n] = LastAssigned(threads[t].data.message.code.body, n)
        /\ \A t \in 1..MaxRequests :
               ( /\ Runs(t) /\ OfType(t, "string")
                 /\ threads[t].data.message.kind = "code"
                 /\ threads[t].data.message.code = Program(<<PrintName("x")>>)
                 /\ namespace["x"] # Unbound ) =>
                   /\ Len(threads'[t].sent) = 1
                   /\ threads'[t].sent[1].type = "string"
                   /\ threads'[t].sent[1].message = Str(namespace["x"])
      ]_vars

\* a request bound x to 1 and then to 2, and a later request printed 2
C20_Witness ==
    /\ Len(threads) = 2
    /\ Done(1) /\ Done(2)
    /\ OfType(1, "string") /\ threads[1].data.message.kind = "code"
    /\ threads[1].data.message.code = Program(<<Bind("x", 1), Bind("x", 2)>>)
    /\ OfType(2, "string")
    /\ Len(threads[2].sent) = 1
    /\ threads[2].sent[1].type = "string"
    /\ threads[2].sent[1].message = <<"2">>

----------------------------------------------------------------------------
(* The top-level build process (__main__.py) and the server it starts      *)
(* (server_utils.py).  .pyndoc.json is "absent", "empty" (opened for       *)
(* writing, nothing flushed yet), or holds a port: "stale" is the port of  *)
(* a server of an earlier run that no longer exists, "live" the port of    *)
(* the server this run spawns.                                             *)

retries == 50

\* ping_server: pong comes only from a server that accepts connections on the
\* port; a refused connection, a timeout and any other exception give False
PingOutcomes(file, proc) ==
    IF file = "live" /\ proc = "listening" THEN {TRUE, FALSE} ELSE {FALSE}

\* get_active_server with the ping answered (pong) or not
get_active_server(file, pong) ==
    IF file = "absent" THEN [err |-> "none", port |-> "None"]
    ELSE IF file = "empty" THEN [err |-> "json", port |-> "None"]
    ELSE IF pong THEN [err |-> "none", port |-> file]
    ELSE [err |-> "none", port |-> "None"]

\* the top-level process ends with an exception
BuildRaises(e) ==
    /\ build_pc' = "raised"
    /\ build_result' = e

\* get_or_start_server: the first get_active_server call, then Popen of the server
GetOrStartServer ==
    /\ build_pc = "get_or_start_server"
    /\ \E pong \in PingOutcomes(metadata_file, server_proc) :
        LET r == get_active_server(metadata_file, pong) IN
        IF r.err # "none"
        THEN /\ BuildRaises(r.err)
             /\ UNCHANGED <<server_proc, port>>
        ELSE IF r.port # "None"
        THEN /\ port' = r.port
             /\ build_pc' = "save_metadata"
             /\ UNCHANGED <<server_proc, build_result>>
        ELSE /\ server_proc' = "spawned"
             /\ build_pc' = "start_server"
             /\ UNCHANGED <<port, build_result>>
    /\ UNCHANGED <<metadata_file, attempts>>
    /\ UNCHANGED <<docVars, serverVars, captureVars>>

\* start_server: one iteration of `for i in range(retries)`
Attempt ==
    /\ build_pc = "start_server"
    /\ attempts < retries
    /\ attempts' = attempts + 1
    /\ \E pong \in PingOutcomes(metadata_file, server_proc) :
        LET r == get_active_server(metadata_file, pong) IN
        IF r.err # "none"
        THEN /\ BuildRaises(r.err)
             /\ UNCHANGED port
        ELSE IF r.port # "None"
        THEN /\ port' = r.port
             /\ build_pc' = "save_metadata"
             /\ UNCHANGED build_result
        ELSE UNCHANGED <<build_pc, port, build_result>>
    /\ UNCHANGED <<metadata_file, server_proc>>
    /\ UNCHANGED <<docVars, serverVars, captureVars>>

\* start_server: the loop ran out
AttemptsExhausted ==
    /\ build_pc = "start_server"
    /\ attempts = retries
    /\ BuildRaises("runtime")
    /\ UNCHANGED <<metadata_file, server_proc, port, attempts>>
    /\ UNCHANGED <<docVars, serverVars, captureVars>>

\* get_or_start_server and main write the port (and the format) to the file
SaveMetadata ==
    /\ build_pc = "save_metadata"
    /\ metadata_file' = port
    /\ build_pc' = "pandoc"
    /\ UNCHANGED <<server_proc, port, attempts, build_result>>
    /\ UNCHANGED <<docVars, serverVars, captureVars>>

ReturnCodes == {0, 1}

\* main: subprocess.run(["pandoc", ...]) and the check of its return code
RunPandoc ==
    /\ build_pc = "pandoc"
    /\ \E returncode \in ReturnCodes :
        IF returncode # 0
        THEN BuildRaises("pandoc")
        ELSE /\ build_pc' = "stop_server"
             /\ UNCHANGED build_result
    /\ UNCHANGED <<metadata_file, server_proc, port, attempts>>
    /\ UNCHANGED <<docVars, serverVars, captureVars>>

\* stop_server(port): connect, send the shutdown request, wait for the response
stop_server ==
    /\ build_pc = "stop_server"
    /\ IF port = "None"
       THEN /\ build_pc' = "unlink"
            /\ UNCHANGED <<server_proc, build_result>>
       ELSE IF server_proc = "listening"
       THEN /\ server_proc' = "shutdown"
            /\ build_pc' = "unlink"
            /\ UNCHANGED build_result
       ELSE /\ BuildRaises("refused")
            /\ UNCHANGED server_proc
    /\ UNCHANGED <<metadata_file, port, attempts>>
    /\ UNCHANGED <<docVars, serverVars, captureVars>>

\* main: metadata_file.unlink(), FileNotFoundError caught
Unlink ==
    /\ build_pc = "unlink"
    /\ metadata_file' = "absent"
    /\ build_pc' = "done"
    /\ build_result' = "returned"
    /\ UNCHANGED <<server_proc, port, attempts>>
    /\ UNCHANGED <<docVars, serverVars, captureVars>>

\* the server process: save_metadata opens the file for writing
ServerOpensFile ==
    /\ server_proc = "spawned"
    /\ metadata_file' = "empty"
    /\ server_proc' = "opened"
    /\ UNCHANGED <<build_pc, port, attempts, build_result>>
    /\ UNCHANGED <<docVars, serverVars, captureVars>>

\* the server process: json.dump and the close of the file
ServerSavesMetadata ==
    /\ server_proc = "opened"
    /\ metadata_file' = "live"
    /\ server_proc' = "saved"
    /\ UNCHANGED <<build_pc, port, attempts, build_result>>
    /\ UNCHANGED <<docVars, serverVars, captureVars>>

\* the server process: bind and listen
ServerListens ==
    /\ server_proc = "saved"
    /\ server_proc' = "listening"
    /\ UNCHANGED <<build_pc, metadata_file, port, attempts, build_result>>
    /\ UNCHANGED <<docVars, serverVars, captureVars>>

\* the server process leaves its accept loop by idle timeout
ServerTimesOut ==
    /\ server_proc = "listening"
    /\ server_proc' = "stopped"
    /\ UNCHANGED <<build_pc, metadata_file, port, attempts, build_result>>
    /\ UNCHANGED <<docVars, serverVars, captureVars>>

\* a build starts with no server running; the file may be left from an earlier run
LeftoverFiles == {"absent", "stale"}

InitBuild ==
    /\ NoDocument /\ NoServer /\ NoCapture
    /\ build_pc = "get_or_start_server"
    /\ metadata_file \in LeftoverFiles
    /\ server_proc = "none"
    /\ port = "None"
    /\ attempts = 0
    /\ build_result = "none"

NextBuild ==
    \/ GetOrStartServer
    \/ Attempt
    \/ AttemptsExhausted
    \/ SaveMetadata
    \/ RunPandoc
    \/ stop_server
    \/ Unlink
    \/ ServerOpensFile
    \/ ServerSavesMetadata
    \/ ServerListens
    \/ ServerTimesOut

SpecBuild == InitBuild /\ [][NextBuild]_vars

BuildEnded == build_pc \in {"done", "raised"}

\* C21: every run of the build that obtained a server port ends with the
\* shutdown request delivered to that server and with the metadata file removed,
\* whether pandoc succeeded or failed and whether or not the server had stopped
C21_BuildStopsServer ==
    (BuildEnded /\ port # "None") =>
        (server_proc = "shutdown" /\ metadata_file = "absent")

\* C22: while start_server polls, every failed discovery attempt is retried:
\* an attempt ends the polling with an error only when 50 attempts were made and
\* then with start_server's own error; a port is obtained only from a server
\* that answers the ping; and no more than 50 attempts are made
C22_FailedAttemptRetried ==
    /\ [][(build_pc = "start_server" /\ build_pc' = "raised") =>
            (attempts = retries /\ build_result' = "runtime")]_vars
    /\ [][(port = "None" /\ port' # "None") =>
            (port' = "live" /\ server_proc = "listening")]_vars
    /\ [](attempts <= retries)

----------------------------------------------------------------------------
(* Properties of the readers, continued *)

\* identifier macros that end in a dot: the dot ends the name, or follows groups
DotMacros == {Chars("x."), Chars("x.a."), Chars("f(x).a.")}

\* the length of the sigil of the macro at k: an optional i or b, one or two percents
SigilLen(cont, k) ==
    LET p == IF At(cont, k) \in {"i", "b"} THEN 1 ELSE 0
    IN  p + (IF At(cont, k + p + 1) = "%" THEN 2 ELSE 1)

\* the macro read at span s is m, and m is not continued by what follows it
MacroIs(s, m) ==
    LET k == s.at + SigilLen(contents, s.at)
    IN  /\ s.op = "macro"
        /\ StartsWith(contents, k, m)
        /\ \/ k + Len(m) = Len(contents)
           \/ At(contents, k + Len(m)) \notin WordChars \cup {"."}

\* the macro read at span s is m: the consumed text ends just before the final dot of
\* m and the emitted code holds m without that dot
DotLeft(s, m) ==
    /\ s.at + s.skip = s.at + SigilLen(contents, s.at) + Len(m) - 1
    /\ Contains(s.text, SliceTo(m, -1))
    /\ ~Contains(s.text, m)

\* C23: for an identifier macro whose text ends in a dot, whether the dot ends the
\* name or follows call, index or attribute groups, the emitted code excludes the dot
\* and the consumed length ends immediately before it, so that the dot and nothing
\* but the dot is left after the macro and no character is emitted twice
C23_TrailingDotLeft ==
    \A n \in 1..Len(spans) : \A m \in DotMacros :
        MacroIs(spans[n], m) => DotLeft(spans[n], m)

\* a fenced block of FencedDocs with backtick fences
BacktickFenced == {doc \in FencedDocs : doc[1] = BT}

\* the lines of a document, tabs expanded
ExpandedLines(doc) == Split(ReplaceChar(doc, "\t", Spaces(4)), "\n")

\* the content lines of a fenced block de-indented relative to the first of them
ContentDeindented(doc) ==
    DeindentFrom(SubSeq(ExpandedLines(doc), 2, Len(ExpandedLines(doc)) - 1))

\* C24: read_code de-indents a fenced block relative to its first content line, tabs
\* expanded to 4 spaces, and raises a fatal error when a later non-blank line of the
\* block is indented less than that line or inconsistently
C24_FenceDeindented ==
    (Ended /\ contents \in BacktickFenced) =>
        IF ContentDeindented(contents).err # "none"
        THEN pc = "error"
        ELSE /\ pc = "done"
             /\ result.text = <<BT, BT, BT, "\n">> \o ContentDeindented(contents).val
                              \o <<"\n", BT, BT, BT>>

\* the length of the run of the character at k
RECURSIVE RunLen(_, _)
RunLen(cont, k) ==
    IF k + 1 < Len(cont) /\ At(cont, k + 1) = At(cont, k) THEN 1 + RunLen(cont, k + 1) ELSE 1

\* the span s is a fenced block: a code span opened by a run of at least 3
FencedSpan(s) == s.op = "code" /\ RunLen(contents, s.at) >= 3

\* C25: a fenced block opened by a run of n >= 3 delimiters is closed only by a later
\* run of at least 3 that shares no character with the opening run: the span covers
\* the opening fence, the content and the closing fence, for every n >= 3
C25_ClosingRunApart ==
    \A n \in 1..Len(spans) :
        FencedSpan(spans[n]) =>
            /\ spans[n].skip >= RunLen(contents, spans[n].at) + 3
            /\ \A k \in 1..3 :
                At(contents, spans[n].at + spans[n].skip - k) = At(contents, spans[n].at)

\* the character at p is escaped: one backslash stands directly before it
EscapedAt(cont, p) ==
    /\ p >= 1
    /\ At(cont, p - 1) = "\\"
    /\ (p >= 2 => At(cont, p - 2) # "\\")

\* the length of the closing delimiter of the code or math span s
ClosingLen(s) ==
    IF s.op = "code" THEN Min(RunLen(contents, s.at), 3) ELSE Min(RunLen(contents, s.at), 2)

\* C26: in read_code and read_math a delimiter directly preceded by a backslash is
\* literal content: it is never the closing delimiter of an inline span and never one
\* of the characters of the closing run of a double-backtick span, a fenced block or
\* a display-math block
C26_EscapedNeverCloses ==
    \A n \in 1..Len(spans) :
        (spans[n].op \in {"code", "math"} /\ spans[n].skip > 1) =>
            \A k \in 1..ClosingLen(spans[n]) :
                ~EscapedAt(contents, spans[n].at + spans[n].skip - k)

\* position p lies inside the span s
Inside(s, p) == s.at <= p /\ p < s.at + s.skip

\* C27: the driver treats the tilde as a code delimiter like the backtick: at a tilde
\* fence it dispatches to read_code, the fenced block is consumed as one code span and
\* the macro forms inside it are not expanded
C27_TildeIsCode ==
    \A n \in 1..Len(spans) :
        (StartsWith(contents, spans[n].at, Chars("~~~"))
         /\ \A m \in 1..(n - 1) : ~Inside(spans[m], spans[n].at)) =>
            /\ spans[n].op = "code"
            /\ (Ended /\ contents \in FencedDocs) => Len(spans) = 1

\* C30: every character outside a macro, comment or span is copied unchanged, and
\* the letter i or b is consumed as a prefix only when it stands alone before the
\* percent sign: after a word character it stays in the output and the macro gets no
\* inline or block class
C30_PrefixStandsAlone ==
    \A n \in 1..Len(spans) :
        /\ spans[n].op = "char" =>
            (spans[n].skip = 1 /\ spans[n].text = <<At(contents, spans[n].at)>>)
        /\ (spans[n].op \in {"macro", "expression"} /\ spans[n].at > 0
            /\ At(contents, spans[n].at - 1) \in WordChars) =>
            /\ At(contents, spans[n].at) = "%"
            /\ ~Contains(spans[n].text, Chars(" .inline"))
            /\ ~Contains(spans[n].text, Chars(" .block"))

----------------------------------------------------------------------------
(* Properties of the server, continued *)

\* the thread of connection t is still executing its request
Executing(t) == threads[t].state = "started"

\* the main thread leaves the accept loop by idle timeout: the break of `if not
\* listening.is_set()` after the inner loop
LeavesByTimeout == main_pc = "if_timed_out" /\ main_pc' = "if_shutdown"

\* C29: the server never leaves the accept loop by idle timeout while a handler
\* thread is still executing a request: the time spent executing an accepted request
\* does not count toward the idle budget
C29_NoTimeoutWhileExecuting ==
    [][LeavesByTimeout => \A t \in 1..Len(threads) : ~Executing(t)]_vars

----------------------------------------------------------------------------
(* capture_output run by several handler threads at once.  sys.stdout is a  *)
(* name of the process: "stdout" is the original stream, and the numeral of *)
(* w is the StringIO that worker w created.  Worker w runs code that prints *)
(* its own number `prints` times.                                           *)

MaxWorkers == 2
MaxPrints == 2

\* str(w)
Numeral(w) == SubSeq("123456789", w, w)

\* the text one print call of worker w writes: its number and the newline
Printed(w) == <<Numeral(w), "\n">>

\* the worker whose StringIO the stream is
Owner(stream) == CHOOSE w \in DOMAIN workers : Numeral(w) = stream

\* the thread at the entry of capture_output
Worker(prints) ==
    [pc |-> "save", code |-> prints, prints |-> prints, old_stdout |-> "stdout",
     new_stdout |-> <<>>, out |-> <<>>]

\* old_stdout = sys.stdout; new_stdout = io.StringIO()
SaveStdout(w) ==
    /\ workers[w].pc = "save"
    /\ workers' = [workers EXCEPT ![w].old_stdout = sys_stdout, ![w].pc = "redirect"]
    /\ UNCHANGED <<sys_stdout, console>>
    /\ UNCHANGED <<docVars, serverVars, buildVars>>

\* sys.stdout = new_stdout
Redirect(w) ==
    /\ workers[w].pc = "redirect"
    /\ sys_stdout' = Numeral(w)
    /\ workers' = [workers EXCEPT ![w].pc = "exec"]
    /\ UNCHANGED console
    /\ UNCHANGED <<docVars, serverVars, buildVars>>

\* exec: one print call of the code of worker w writes to the stream sys.stdout names
PrintCall(w) ==
    /\ workers[w].pc = "exec"
    /\ workers[w].prints > 0
    /\ IF sys_stdout = "stdout"
       THEN /\ console' = console \o Printed(w)
            /\ workers' = [workers EXCEPT ![w].prints = @ - 1]
       ELSE /\ workers' = [workers EXCEPT ![w].prints = @ - 1,
                                          ![Owner(sys_stdout)].new_stdout = @ \o Printed(w)]
            /\ UNCHANGED console
    /\ UNCHANGED sys_stdout
    /\ UNCHANGED <<docVars, serverVars, buildVars>>

\* finally: sys.stdout = old_stdout
Restore(w) ==
    /\ workers[w].pc = "exec"
    /\ workers[w].prints = 0
    /\ sys_stdout' = workers[w].old_stdout
    /\ workers' = [workers EXCEPT ![w].pc = "getvalue"]
    /\ UNCHANGED console
    /\ UNCHANGED <<docVars, serverVars, buildVars>>

\* out = new_stdout.getvalue(), less one newline at its end; the handler sends it
Respond(w) ==
    /\ workers[w].pc = "getvalue"
    /\ workers' = [workers EXCEPT ![w].out = StripOneNewline(workers[w].new_stdout),
                                  ![w].pc = "sent"]
    /\ UNCHANGED <<sys_stdout, console>>
    /\ UNCHANGED <<docVars, serverVars, buildVars>>

InitCapture ==
    /\ NoDocument /\ NoServer /\ NoBuild
    /\ sys_stdout = "stdout"
    /\ workers \in [1..MaxWorkers -> {Worker(prints) : prints \in 0..MaxPrints}]
    /\ console = <<>>

NextCapture ==
    \E w \in 1..MaxWorkers :
        \/ SaveStdout(w)
        \/ Redirect(w)
        \/ PrintCall(w)
        \/ Restore(w)
        \/ Respond(w)

SpecCapture == InitCapture /\ [][NextCapture]_vars

\* the text n print calls of worker w write
RECURSIVE OwnOutput(_, _)
OwnOutput(w, n) == IF n = 0 THEN <<>> ELSE Printed(w) \o OwnOutput(w, n - 1)

\* C28: when string or file requests execute concurrently, the text of each response
\* is exactly the standard output of that request's own code, nothing of another
\* request in it and nothing lost, and once all handlers have finished sys.stdout is
\* again the stream it was before the first request
C28_OutputNotMixed ==
    /\ \A w \in DOMAIN workers :
        workers[w].pc = "sent" =>
            workers[w].out = StripOneNewline(OwnOutput(w, workers[w].code))
    /\ (workers # <<>> /\ \A w \in DOMAIN workers : workers[w].pc = "sent") =>
        sys_stdout = "stdout"

====
